---------------------------- MODULE Spec2Model ----------------------------
(***************************************************************************)
(* Order-fulfilment pipeline of wheres-my-pizza: the persistence store,    *)
(* order intake (Service.CreateOrder and the older OrderService), the      *)
(* kitchen worker's per-message protocol and the worker's lifecycle.       *)
(***************************************************************************)
EXTENDS Integers, Sequences, FiniteSets, TLC

(***************************************************************************)
(* Bounds of the model.                                                    *)
(***************************************************************************)
MaxCalls == 2          \* CreateOrder calls issued to one intake process
MaxConcurrent == 2     \* capacity of the intake semaphore (maxConcurrent)
MaxDay == 2            \* UTC days the clock can reach
MaxOrders == 2         \* orders waiting for the kitchen
MaxDeliveries == 2     \* deliveries (first and repeated) the broker makes
MaxProcs == 2          \* kitchen-worker processes started under one name
MaxRelays == 2         \* notification relay instances

Calls == 1..MaxCalls
Procs == 1..MaxProcs
Days == 1..MaxDay
None == "none"
Unlocked == 0          \* sync.Mutex zero value: no holder
NoNumber == [date |-> 0, seq |-> <<>>]

(***************************************************************************)
(* models.OrderType, models.OrderStatus                                    *)
(***************************************************************************)
DineIn == "dine_in"
Takeout == "takeout"
Delivery == "delivery"
OrderTypes == {DineIn, Takeout, Delivery}

StatusReceived == "received"
StatusCooking == "cooking"
StatusReady == "ready"

WorkerOnline == "online"
WorkerOffline == "offline"
NoRow == [status |-> "absent", orders_processed |-> 0]

\* the kitchen worker processes
KWorkers == {"chef_mario", "chef_luigi"}

(***************************************************************************)
(* Requests the handler passes to CreateOrder (already validated): the     *)
(* customer, the order type with its table number or delivery address (0   *)
(* and "" for nil) and the item list.  Amounts of money are counted in          *)
(* thousandths of the currency unit, so that a price with more than two    *)
(* decimals, which the float64 fields carry, has a value of its own.       *)
(***************************************************************************)
Unit == 1000
Cent == 10

Pizza == [name |-> "Pizza", quantity |-> 2, price |-> 10 * Unit]
Cola == [name |-> "Cola", quantity |-> 1, price |-> 250 * Cent]
RequestList ==
    << [customer_name |-> "Ann", order_type |-> Takeout,
        table_number |-> 0, delivery_address |-> "",
        items |-> <<Pizza>>],
       [customer_name |-> "Bob", order_type |-> Delivery,
        table_number |-> 0, delivery_address |-> "12 Long Street",
        items |-> <<Pizza, Cola>>] >>
Requests == { RequestList[k] : k \in 1..Len(RequestList) }
NoRequest ==
    [customer_name |-> "", order_type |-> None, table_number |-> 0,
     delivery_address |-> "", items |-> <<>>]

VARIABLES
    \* ---- persistence store (migrations/001, 003) ----
    orders,            \* table orders: sequence of committed rows
    order_items,       \* table order_items: sequence of committed rows
    order_status_log,  \* table order_status_log: sequence of committed rows
    nextOrderId,       \* the SERIAL sequence of orders.id
    \* ---- clock ----
    today,             \* current UTC day
    \* ---- order intake: Service (NewService / CreateOrder) ----
    call,              \* per CreateOrder call: position, locals, open transaction
    semaphore,         \* number of slots taken in Service.semaphore
    orderNumberMutex,  \* holder of Service.orderNumberMutex, or Unlocked
    published,         \* work messages accepted by the broker, in order
    \* ---- order intake: OrderService (services/order/service.go) ----
    ocall,             \* per OrderService.CreateOrder call: position and locals
    orderCounter,      \* package variable orderCounter
    lastOrderDate,     \* package variable lastOrderDate (0 is the empty string)
    \* ---- worker registry (table workers) ----
    workers,           \* name -> row [status, orders_processed], or NoRow
    \* ---- broker ----
    queues,            \* work queue name -> set of messages waiting in it
    notifications,     \* messages published to notifications_fanout, in order
    deliveries,        \* number of deliveries the broker has made
    \* ---- kitchen workers ----
    kconf,             \* per worker: orderTypes (specialization), consumed queue
    kworker,           \* per worker: handler position, delivery in hand, error
    \* ---- worker lifecycle (Worker.Start in its process) ----
    lproc,             \* per worker process: goroutine positions, channels, ctx
    \* ---- one POST /orders request through validation and pricing ----
    hreq,              \* the decoded request body
    hcall,             \* Handler.CreateOrder with models.Validate and Service
    vcall,             \* OrderService.CreateOrder with validation.ValidateOrderRequest
    \* ---- notification relays (Subscriber) on notifications_queue ----
    notificationsDelivered, \* messages the broker has handed out of the queue
    relay,             \* per relay: position, delivery in hand, lines displayed
    \* ---- NewService(..., maxConcurrent) ----
    maxConcurrent,     \* cap(Service.semaphore), fixed at construction
    \* ---- tracking reader: one GET request of the tracking handler ----
    track,             \* endpoint, order number asked, clock, and the answer
    \* ---- one Consumer on its Connection (StartConsuming, Reconnect) ----
    conn               \* position, connect attempt, declarations, ctx, result

storeVars == <<orders, order_items, order_status_log, nextOrderId>>
intakeVars == <<call, semaphore, orderNumberMutex, published>>
legacyVars == <<ocall, orderCounter, lastOrderDate>>
brokerVars == <<queues, notifications, deliveries>>
kitchenVars == <<kconf, kworker>>
lifeVars == <<lproc>>
requestVars == <<hreq, hcall, vcall>>
relayVars == <<notificationsDelivered, relay>>
sideVars == <<requestVars, relayVars, maxConcurrent, track, conn>>
restVars == <<workers, brokerVars, kitchenVars, lifeVars, sideVars>>
vars == <<storeVars, today, intakeVars, legacyVars, restVars>>

(***************************************************************************)
(* Sequence helpers.                                                       *)
(***************************************************************************)
Range(s) == { s[i] : i \in 1..Len(s) }

SetMax(S) ==
    IF S = {} THEN 0 ELSE CHOOSE x \in S : \A y \in S : y <= x

(***************************************************************************)
(* Order numbers.  GenerateOrderNumber formats "ORD_%s_%03d": the date and *)
(* the decimal digits of the sequence, left-padded with zeros to width 3.  *)
(***************************************************************************)
RECURSIVE Digits(_)
Digits(n) == IF n < 10 THEN <<n>> ELSE Append(Digits(n \div 10), n % 10)

Pad3(ds) ==
    IF Len(ds) >= 3 THEN ds
    ELSE IF Len(ds) = 2 THEN <<0>> \o ds
    ELSE <<0, 0>> \o ds

GenerateOrderNumber(date, sequence) ==
    [date |-> date, seq |-> Pad3(Digits(sequence))]

\* SUBSTRING(number FROM 'ORD_[0-9]{8}_([0-9]{3})') cast to INTEGER: the
\* first three digits that follow the date.
SubstringSeq(number) ==
    100 * number.seq[1] + 10 * number.seq[2] + number.seq[3]

\* GetNextOrderNumberSQL with pattern ORD_<date>_% over the committed rows.
GetNextOrderNumber(rows, date) ==
    SetMax({ SubstringSeq(rows[i].number) :
                i \in { j \in 1..Len(rows) : rows[j].number.date = date } }) + 1

(***************************************************************************)
(* The UNIQUE constraint on orders.number, as seen by an INSERT.           *)
(***************************************************************************)
NumberCommitted(number) == \E i \in 1..Len(orders) : orders[i].number = number

NoTx == [order |-> <<>>, items |-> <<>>, log |-> <<>>]

\* another open transaction has inserted the same number and not finished:
\* the INSERT waits for it
NumberPending(c, number) ==
    \E d \in Calls \ {c} :
        /\ call[d].tx.order # <<>>
        /\ call[d].tx.order[1].number = number

\* the constraint dropped from the schema
UniqueViolation_NoConstraint(c, number) == FALSE

UniqueViolation(c, number) == NumberCommitted(number)

(***************************************************************************)
(* CreateOrderRequest.CalculateTotalAmount: sum of price * quantity.       *)
(***************************************************************************)
RECURSIVE SumItems(_, _)
SumItems(items, k) ==
    IF k = 0 THEN 0
    ELSE SumItems(items, k - 1) + items[k].price * items[k].quantity

CalculateTotalAmount(req) == SumItems(req.items, Len(req.items))

NoResponse == [order_number |-> NoNumber, status |-> None, total_amount |-> 0]

\* CreateOrderRequest.CalculatePriority
CalculatePriority(req) ==
    LET total == CalculateTotalAmount(req)
    IN IF total > 100 * Unit THEN 10 ELSE IF total >= 50 * Unit THEN 5 ELSE 1

\* a value stored in a DECIMAL(p,2) column: rounded to the cent, a half
\* going up
Decimal2(amount) == ((amount + Cent \div 2) \div Cent) * Cent

(***************************************************************************)
(* Broker topology: the work queues and their bindings on orders_topic.    *)
(* A routing key and a binding pattern are sequences of words; the word *  *)
(* of a pattern matches exactly one word of the key.                       *)
(***************************************************************************)
Queues == {"kitchen_queue", "kitchen_dine_in_queue", "kitchen_takeout_queue",
           "kitchen_delivery_queue"}

\* type queues bound with the pattern of the general queue's intent
Binding_AnyType(q) ==
    CASE q = "kitchen_queue" -> <<"kitchen", "*">>
      [] OTHER -> <<"kitchen", "*", "*">>

Binding(q) ==
    CASE q = "kitchen_queue" -> <<"kitchen", "*">>
      [] q = "kitchen_dine_in_queue" -> <<"kitchen", DineIn, "*">>
      [] q = "kitchen_takeout_queue" -> <<"kitchen", Takeout, "*">>
      [] q = "kitchen_delivery_queue" -> <<"kitchen", Delivery, "*">>

GenerateRoutingKey(orderType, priority) == <<"kitchen", orderType, priority>>

TopicMatch(pattern, key) ==
    /\ Len(pattern) = Len(key)
    /\ \A k \in 1..Len(pattern) : pattern[k] = "*" \/ pattern[k] = key[k]

\* the queues of the exchange after a message was published with key `key`
Route(qs, key, msg) ==
    [q \in Queues |-> IF TopicMatch(Binding(q), key) THEN qs[q] \cup {msg} ELSE qs[q]]

CreateOrderMessageFromRequest(req, orderNumber, priority) ==
    [order_number |-> orderNumber, order_type |-> req.order_type,
     total_amount |-> CalculateTotalAmount(req), priority |-> priority]

NoMessage ==
    [order_number |-> NoNumber, order_type |-> None, total_amount |-> 0,
     priority |-> 0]

IdleWorker ==
    [pc |-> "idle", msg |-> NoMessage, err |-> None, outcome |-> None,
     expired |-> FALSE]

\* the worker name every process of the lifecycle model is started with
WorkerName == "chef_mario"

\* a worker process before Start: the channels of NewWorker and of main are
\* empty, the context is live; seen is the status of the row the
\* registration check read, wentOffline whether gracefulShutdown's update
\* went through
NotStarted ==
    [pc |-> "new", hb |-> "none", cons |-> "none", shutdown |-> 0, done |-> 0,
     sigChan |-> 0, cancelled |-> FALSE, notified |-> FALSE,
     registered |-> FALSE, signalled |-> FALSE, seen |-> None,
     wentOffline |-> FALSE, result |-> None]

(***************************************************************************)
(* Service.CreateOrder (the implementation wired in cmd/main.go).          *)
(***************************************************************************)
IdleCall ==
    [pc |-> "idle", req |-> NoRequest, now |-> 0, orderNumber |-> NoNumber,
     orderID |-> 0, tx |-> NoTx, result |-> None, response |-> NoResponse,
     holdsSlot |-> FALSE]

\* a return that leaves the slot taken
Return_SlotKept(c, res) ==
    /\ call' = [call EXCEPT ![c].pc = "done", ![c].result = res,
                            ![c].tx = NoTx, ![c].holdsSlot = FALSE]
    /\ UNCHANGED semaphore

\* every return path: deferred tx.Rollback discards an open transaction,
\* deferred semaphore release frees the slot
Return(c, res) ==
    /\ call' = [call EXCEPT ![c].pc = "done", ![c].result = res,
                            ![c].tx = NoTx, ![c].holdsSlot = FALSE]
    /\ semaphore' = IF call[c].holdsSlot THEN semaphore - 1 ELSE semaphore

\* calls are numbered in their order of arrival
Submit(c, r) ==
    /\ call[c].pc = "idle"
    /\ \A d \in Calls : d < c => call[d].pc # "idle"
    /\ call' = [call EXCEPT ![c].pc = "semaphore", ![c].req = r]
    /\ UNCHANGED <<storeVars, today, semaphore, orderNumberMutex, published, legacyVars, restVars>>

AcquireSemaphore(c) ==
    /\ call[c].pc = "semaphore"
    /\ semaphore < maxConcurrent
    /\ semaphore' = semaphore + 1
    /\ call' = [call EXCEPT ![c].pc = "lock", ![c].holdsSlot = TRUE,
                            ![c].now = today]
    /\ UNCHANGED <<storeVars, today, orderNumberMutex, published, legacyVars, restVars>>

AcquireTimeout(c) ==
    /\ call[c].pc = "semaphore"
    /\ Return(c, "ctx_err")
    /\ UNCHANGED <<storeVars, today, orderNumberMutex, published, legacyVars, restVars>>

LockOrderNumber(c) ==
    /\ call[c].pc = "lock"
    /\ orderNumberMutex = Unlocked
    /\ orderNumberMutex' = c
    /\ call' = [call EXCEPT ![c].pc = "nextseq"]
    /\ UNCHANGED <<storeVars, today, semaphore, published, legacyVars, restVars>>

\* the query under the lock; the deferred Unlock runs on both outcomes
generateOrderNumber(c) ==
    /\ call[c].pc = "nextseq"
    /\ orderNumberMutex = c
    /\ orderNumberMutex' = Unlocked
    /\ \/ /\ call' = [call EXCEPT ![c].pc = "begin",
                ![c].orderNumber =
                    GenerateOrderNumber(call[c].now,
                                        GetNextOrderNumber(orders, call[c].now))]
          /\ UNCHANGED semaphore
       \/ Return(c, "error")
    /\ UNCHANGED <<storeVars, today, published, legacyVars, restVars>>

BeginTx(c) ==
    /\ call[c].pc = "begin"
    /\ \/ /\ call' = [call EXCEPT ![c].pc = "insert_order"]
          /\ UNCHANGED semaphore
       \/ Return(c, "error")
    /\ UNCHANGED <<storeVars, today, orderNumberMutex, published, legacyVars, restVars>>

NewOrderRow(c) ==
    [id |-> nextOrderId, number |-> call[c].orderNumber,
     customer_name |-> call[c].req.customer_name,
     type |-> call[c].req.order_type,
     table_number |-> call[c].req.table_number,
     delivery_address |-> call[c].req.delivery_address,
     total_amount |-> Decimal2(CalculateTotalAmount(call[c].req)),
     priority |-> CalculatePriority(call[c].req),
     status |-> StatusReceived,
     processed_by |-> None, completed_at |-> FALSE, created_at |-> today]

InsertOrder(c) ==
    /\ call[c].pc = "insert_order"
    /\ ~NumberPending(c, call[c].orderNumber)
    /\ \/ /\ ~UniqueViolation(c, call[c].orderNumber)
          /\ call' = [call EXCEPT ![c].pc = "insert_items",
                                  ![c].orderID = nextOrderId,
                                  ![c].tx.order = <<NewOrderRow(c)>>]
          /\ nextOrderId' = nextOrderId + 1
          /\ UNCHANGED semaphore
       \/ /\ UniqueViolation(c, call[c].orderNumber)
          /\ Return(c, "unique_violation")
          /\ UNCHANGED nextOrderId
       \/ /\ Return(c, "error")
          /\ UNCHANGED nextOrderId
    /\ UNCHANGED <<orders, order_items, order_status_log, today,
                   orderNumberMutex, published, legacyVars, restVars>>

InsertOrderItem(c) ==
    /\ call[c].pc = "insert_items"
    /\ LET k == Len(call[c].tx.items) + 1
           item == call[c].req.items[k]
       IN \/ /\ call' = [call EXCEPT
                    ![c].tx.items = Append(@, [order_id |-> call[c].orderID,
                                               name |-> item.name]),
                    ![c].pc = IF k = Len(call[c].req.items)
                              THEN "insert_log" ELSE "insert_items"]
             /\ UNCHANGED semaphore
          \/ Return(c, "error")
    /\ UNCHANGED <<storeVars, today, orderNumberMutex, published, legacyVars, restVars>>

InsertInitialStatus(c) ==
    /\ call[c].pc = "insert_log"
    /\ \/ /\ call' = [call EXCEPT ![c].pc = "commit",
                ![c].tx.log = <<[order_id |-> call[c].orderID,
                                 status |-> StatusReceived,
                                 changed_by |-> "order-service"]>>]
          /\ UNCHANGED semaphore
       \/ Return(c, "error")
    /\ UNCHANGED <<storeVars, today, orderNumberMutex, published, legacyVars, restVars>>

\* a commit whose error is not returned: the call goes on to publish
CommitTx_ErrorIgnored(c) ==
    /\ call[c].pc = "commit"
    /\ \/ /\ orders' = orders \o call[c].tx.order
          /\ order_items' = order_items \o call[c].tx.items
          /\ order_status_log' = order_status_log \o call[c].tx.log
       \/ UNCHANGED <<orders, order_items, order_status_log>>
    /\ call' = [call EXCEPT ![c].pc = "publish", ![c].tx = NoTx]
    /\ UNCHANGED semaphore
    /\ UNCHANGED <<nextOrderId, today, orderNumberMutex, published, legacyVars, restVars>>

\* tx.Commit: the rows of the transaction become visible, or the error is
\* returned and the deferred Rollback drops them
CommitTx(c) ==
    /\ call[c].pc = "commit"
    /\ \/ /\ orders' = orders \o call[c].tx.order
          /\ order_items' = order_items \o call[c].tx.items
          /\ order_status_log' = order_status_log \o call[c].tx.log
          /\ call' = [call EXCEPT ![c].pc = "publish", ![c].tx = NoTx]
          /\ UNCHANGED semaphore
       \/ /\ Return(c, "error")
          /\ UNCHANGED <<orders, order_items, order_status_log>>
    /\ UNCHANGED <<nextOrderId, today, orderNumberMutex, published, legacyVars, restVars>>

OrderMessage(c) ==
    CreateOrderMessageFromRequest(call[c].req, call[c].orderNumber,
                                  CalculatePriority(call[c].req))

RoutingKey(c) ==
    GenerateRoutingKey(call[c].req.order_type, CalculatePriority(call[c].req))

\* a publish error returned to the caller
PublishOrder_ErrorReturned(c) ==
    /\ call[c].pc = "publish"
    /\ \/ /\ published' = Append(published, OrderMessage(c))
          /\ queues' = Route(queues, RoutingKey(c), OrderMessage(c))
          /\ call' = [call EXCEPT ![c].pc = "done", ![c].result = "ok",
                                  ![c].holdsSlot = FALSE]
          /\ semaphore' = semaphore - 1
       \/ /\ UNCHANGED <<published, queues>>
          /\ Return(c, "error")
    /\ UNCHANGED <<storeVars, today, orderNumberMutex, legacyVars, lifeVars, sideVars, workers,
                   notifications, deliveries, kitchenVars>>

\* PublishOrder succeeds or fails; the error is only logged
PublishOrder(c) ==
    /\ call[c].pc = "publish"
    /\ \/ /\ published' = Append(published, OrderMessage(c))
          /\ queues' = Route(queues, RoutingKey(c), OrderMessage(c))
       \/ UNCHANGED <<published, queues>>
    /\ call' = [call EXCEPT ![c].pc = "done", ![c].result = "ok",
                            ![c].holdsSlot = FALSE,
                            ![c].response =
                                [order_number |-> call[c].orderNumber,
                                 status |-> StatusReceived,
                                 total_amount |-> CalculateTotalAmount(call[c].req)]]
    /\ semaphore' = semaphore - 1
    /\ UNCHANGED <<storeVars, today, orderNumberMutex, legacyVars, lifeVars, sideVars, workers,
                   notifications, deliveries, kitchenVars>>

(***************************************************************************)
(* OrderService.CreateOrder (services/order/service.go): the package-level *)
(* counter, read and written without a lock, and three inserts issued on   *)
(* the pool one after the other, each committed on its own.                *)
(***************************************************************************)
IdleOCall ==
    [pc |-> "idle", req |-> NoRequest, tmp |-> 0, orderNumber |-> NoNumber,
     orderID |-> 0, k |-> 0, result |-> None]

\* OrderService.countTotalPrice: the same sum
countTotalPrice(req) == SumItems(req.items, Len(req.items))

\* OrderService.setOrderPriority
setOrderPriority(total) ==
    IF total > 100 * Unit THEN 10 ELSE IF total > 50 * Unit THEN 5 ELSE 1

\* Repository.GetOrderNumber: COUNT(*) of the orders created today
GetOrderNumber == Cardinality({ i \in 1..Len(orders) : orders[i].created_at = today })

OReturn(c, res) == ocall' = [ocall EXCEPT ![c].pc = "done", ![c].result = res]

OSubmit(c, r) ==
    /\ ocall[c].pc = "idle"
    /\ \A d \in Calls : d < c => ocall[d].pc # "idle"
    /\ ocall' = [ocall EXCEPT ![c].pc = "seed", ![c].req = r]
    /\ UNCHANGED <<storeVars, today, intakeVars, orderCounter, lastOrderDate, restVars>>

\* generateOrderNumber up to the increment: seed the counter when it is 0
\* (the query's error is dropped, leaving 0), reset it on a new date, and
\* read it for the increment
OSeedCounter(c) ==
    /\ ocall[c].pc = "seed"
    /\ \E seeded \in IF orderCounter = 0 THEN {GetOrderNumber, 0} ELSE {orderCounter} :
         LET last == IF lastOrderDate = 0 THEN today ELSE lastOrderDate
             counter == IF today # last THEN 0 ELSE seeded
         IN /\ orderCounter' = counter
            /\ lastOrderDate' = last
            /\ ocall' = [ocall EXCEPT ![c].pc = "increment", ![c].tmp = counter]
    /\ UNCHANGED <<storeVars, today, intakeVars, restVars>>

\* orderCounter++ writes back the value read, plus one; the number is
\* formatted from the counter
OIncrement(c) ==
    /\ ocall[c].pc = "increment"
    /\ orderCounter' = ocall[c].tmp + 1
    /\ lastOrderDate' = today
    /\ ocall' = [ocall EXCEPT ![c].pc = "insert_order",
                   ![c].orderNumber = GenerateOrderNumber(today, ocall[c].tmp + 1)]
    /\ UNCHANGED <<storeVars, today, intakeVars, restVars>>

\* Repository.InsertOrder
OInsertOrder(c) ==
    /\ ocall[c].pc = "insert_order"
    /\ ~NumberPending(0, ocall[c].orderNumber)
    /\ \/ /\ ~UniqueViolation(0, ocall[c].orderNumber)
          /\ orders' = Append(orders,
                [id |-> nextOrderId, number |-> ocall[c].orderNumber,
                 customer_name |-> ocall[c].req.customer_name,
                 type |-> ocall[c].req.order_type,
                 table_number |-> ocall[c].req.table_number,
                 delivery_address |-> ocall[c].req.delivery_address,
                 total_amount |-> Decimal2(countTotalPrice(ocall[c].req)),
                 priority |-> setOrderPriority(countTotalPrice(ocall[c].req)),
                 status |-> StatusReceived,
                 processed_by |-> "order service", completed_at |-> FALSE,
                 created_at |-> today])
          /\ nextOrderId' = nextOrderId + 1
          /\ ocall' = [ocall EXCEPT ![c].pc = "insert_items",
                                    ![c].orderID = nextOrderId]
       \/ /\ UniqueViolation(0, ocall[c].orderNumber)
          /\ OReturn(c, "unique_violation")
          /\ UNCHANGED <<orders, nextOrderId>>
       \/ /\ OReturn(c, "error")
          /\ UNCHANGED <<orders, nextOrderId>>
    /\ UNCHANGED <<order_items, order_status_log, today, intakeVars,
                   orderCounter, lastOrderDate, restVars>>

\* Repository.InsertOrderItems, one item per step
OInsertOrderItem(c) ==
    /\ ocall[c].pc = "insert_items"
    /\ LET k == ocall[c].k + 1
           item == ocall[c].req.items[k]
       IN \/ /\ order_items' = Append(order_items,
                    [order_id |-> ocall[c].orderID, name |-> item.name])
             /\ ocall' = [ocall EXCEPT ![c].k = k,
                    ![c].pc = IF k = Len(ocall[c].req.items)
                              THEN "insert_log" ELSE "insert_items"]
          \/ /\ OReturn(c, "error")
             /\ UNCHANGED order_items
    /\ UNCHANGED <<orders, order_status_log, nextOrderId, today, intakeVars,
                   orderCounter, lastOrderDate, restVars>>

\* Repository.AddInitialStatus
OAddInitialStatus(c) ==
    /\ ocall[c].pc = "insert_log"
    /\ \/ /\ order_status_log' = Append(order_status_log,
                [order_id |-> ocall[c].orderID, status |-> StatusReceived,
                 changed_by |-> "order service"])
          /\ OReturn(c, "ok")
       \/ /\ OReturn(c, "error")
          /\ UNCHANGED order_status_log
    /\ UNCHANGED <<orders, order_items, nextOrderId, today, intakeVars,
                   orderCounter, lastOrderDate, restVars>>

(***************************************************************************)
(* The statements of database/queries.go used by the kitchen worker.       *)
(***************************************************************************)
\* an update that also clears the total_amount column
UpdateOrderStatusSQL_ClearsTotal(rows, status, name, number) ==
    [i \in 1..Len(rows) |->
        IF rows[i].number = number
        THEN [rows[i] EXCEPT !.status = status, !.processed_by = name,
                             !.total_amount = 0]
        ELSE rows[i]]

\* UPDATE orders SET status = $1, processed_by = $2 WHERE number = $3
UpdateOrderStatusSQL(rows, status, name, number) ==
    [i \in 1..Len(rows) |->
        IF rows[i].number = number
        THEN [rows[i] EXCEPT !.status = status, !.processed_by = name]
        ELSE rows[i]]

\* UPDATE orders SET status = $1, completed_at = NOW() WHERE number = $2
UpdateOrderCompletedSQL(rows, status, number) ==
    [i \in 1..Len(rows) |->
        IF rows[i].number = number
        THEN [rows[i] EXCEPT !.status = status, !.completed_at = TRUE]
        ELSE rows[i]]

\* a log that keeps one row per order, overwritten at each transition
InsertOrderStatusLogSQL_Overwrite(log, orderID, status, changedBy) ==
    [k \in 1..Len(log) |->
        IF log[k].order_id = orderID
        THEN [order_id |-> orderID, status |-> status, changed_by |-> changedBy]
        ELSE log[k]]

\* INSERT INTO order_status_log (order_id, status, changed_by, notes)
InsertOrderStatusLogSQL(log, orderID, status, changedBy) ==
    Append(log, [order_id |-> orderID, status |-> status, changed_by |-> changedBy])

\* an update of last_seen that leaves the counter alone
UpdateWorkerHeartbeatSQL_NoCount(tbl, n, w) == tbl

\* UPDATE workers SET orders_processed = orders_processed + $1 WHERE name = $2
UpdateWorkerHeartbeatSQL(tbl, n, name) ==
    [w \in DOMAIN tbl |->
        IF w = name /\ tbl[w] # NoRow
        THEN [tbl[w] EXCEPT !.orders_processed = @ + n]
        ELSE tbl[w]]

\* SELECT id FROM orders WHERE number = $1
OrderExists(number) == \E i \in 1..Len(orders) : orders[i].number = number
OrderRow(number) == orders[CHOOSE i \in 1..Len(orders) : orders[i].number = number]

(***************************************************************************)
(* The kitchen worker: Consumer.StartConsuming / processMessage around     *)
(* Worker.handleMessage and Worker.processOrder.                           *)
(***************************************************************************)
\* a specialization that is never consulted
canHandleOrderType_Always(w, orderType) == TRUE

canHandleOrderType(w, orderType) ==
    \/ kconf[w].orderTypes = {}
    \/ orderType \in kconf[w].orderTypes

CreateStatusUpdateMessage(orderNumber, oldStatus, newStatus, changedBy, estimated) ==
    [order_number |-> orderNumber, old_status |-> oldStatus,
     new_status |-> newStatus, changed_by |-> changedBy,
     estimated_completion |-> estimated]

\* message m leaves the consumed queue and is in the consumer's hand
Handover(w, m) ==
    /\ queues' = [queues EXCEPT ![kconf[w].queue] = @ \ {m}]
    /\ kworker' = [kworker EXCEPT ![w] =
          [pc |-> "handle", msg |-> m, err |-> None, outcome |-> None,
           expired |-> FALSE]]

\* the broker hands the next message of the consumed queue to the consumer
Deliver(w) ==
    /\ kworker[w].pc = "idle"
    /\ deliveries < MaxDeliveries
    /\ \E m \in queues[kconf[w].queue] : Handover(w, m)
    /\ deliveries' = deliveries + 1
    /\ UNCHANGED <<storeVars, today, intakeVars, legacyVars, lifeVars, sideVars, workers,
                   notifications, kconf>>

\* a handler that turns every order away
handleMessage_Rejecting(w) ==
    /\ kworker[w].pc = "handle"
    /\ kworker' = [kworker EXCEPT ![w].pc = "returned",
                                  ![w].err = "cannot_handle"]
    /\ UNCHANGED <<storeVars, today, intakeVars, legacyVars, lifeVars, sideVars, workers,
                   brokerVars, kconf>>

\* Worker.handleMessage up to the call of processOrder
handleMessage(w) ==
    /\ kworker[w].pc = "handle"
    /\ IF canHandleOrderType(w, kworker[w].msg.order_type)
       THEN kworker' = [kworker EXCEPT ![w].pc = "cooking"]
       ELSE kworker' = [kworker EXCEPT ![w].pc = "returned",
                                       ![w].err = "cannot_handle"]
    /\ UNCHANGED <<storeVars, today, intakeVars, legacyVars, lifeVars, sideVars, workers,
                   brokerVars, kconf>>

\* a cooking step whose failure is logged only: the handler goes on to the
\* notification although nothing was committed
updateOrderStatus_ErrorLogged(w) ==
    /\ kworker[w].pc = "cooking"
    /\ LET n == kworker[w].msg.order_number
       IN \/ /\ OrderExists(n)
             /\ orders' = UpdateOrderStatusSQL(orders, StatusCooking, w, n)
             /\ order_status_log' =
                   InsertOrderStatusLogSQL(order_status_log, OrderRow(n).id,
                                           StatusCooking, w)
          \/ UNCHANGED <<orders, order_status_log>>
    /\ kworker' = [kworker EXCEPT ![w].pc = "notify_cooking"]
    /\ UNCHANGED <<order_items, nextOrderId, today, intakeVars, legacyVars, lifeVars, sideVars,
                   workers, brokerVars, kconf>>

\* Worker.updateOrderStatus(StatusCooking): one transaction, or an error
\* with nothing written
updateOrderStatus(w) ==
    /\ kworker[w].pc = "cooking"
    /\ LET n == kworker[w].msg.order_number
       IN \/ /\ OrderExists(n)
             /\ orders' = UpdateOrderStatusSQL(orders, StatusCooking, w, n)
             /\ order_status_log' =
                   InsertOrderStatusLogSQL(order_status_log, OrderRow(n).id,
                                           StatusCooking, w)
             /\ kworker' = [kworker EXCEPT ![w].pc = "notify_cooking"]
          \/ /\ UNCHANGED <<orders, order_status_log>>
             /\ kworker' = [kworker EXCEPT ![w].pc = "returned",
                                           ![w].err = "cooking_failed"]
    /\ UNCHANGED <<order_items, nextOrderId, today, intakeVars, legacyVars, lifeVars, sideVars,
                   workers, brokerVars, kconf>>

\* PublishNotification of the cooking update; an error is logged only.
\* The preparation time is slept through before the next step.
PublishCookingNotification(w) ==
    /\ kworker[w].pc = "notify_cooking"
    /\ \/ notifications' = Append(notifications,
              CreateStatusUpdateMessage(kworker[w].msg.order_number,
                  StatusReceived, StatusCooking, w, TRUE))
       \/ UNCHANGED notifications
    /\ kworker' = [kworker EXCEPT ![w].pc = "ready"]
    /\ UNCHANGED <<storeVars, today, intakeVars, legacyVars, lifeVars, sideVars, workers,
                   queues, deliveries, kconf>>

\* the ready update as separate auto-committed statements: a failure after
\* the first statement leaves the order ready without log row or count
updateOrderStatusReady_NoRollback(w) ==
    /\ kworker[w].pc = "ready"
    /\ LET n == kworker[w].msg.order_number
       IN \/ /\ OrderExists(n)
             /\ orders' = UpdateOrderCompletedSQL(orders, StatusReady, n)
             /\ order_status_log' =
                   InsertOrderStatusLogSQL(order_status_log, OrderRow(n).id,
                                           StatusReady, w)
             /\ workers' = UpdateWorkerHeartbeatSQL(workers, 1, w)
             /\ kworker' = [kworker EXCEPT ![w].pc = "notify_ready"]
          \/ /\ orders' = UpdateOrderCompletedSQL(orders, StatusReady, n)
             /\ UNCHANGED <<order_status_log, workers>>
             /\ kworker' = [kworker EXCEPT ![w].pc = "returned",
                                           ![w].err = "ready_failed"]
    /\ UNCHANGED <<order_items, nextOrderId, today, intakeVars, legacyVars, lifeVars, sideVars,
                   brokerVars, kconf>>

\* Worker.updateOrderStatusReady: one transaction, or an error with
\* nothing written
updateOrderStatusReady(w) ==
    /\ kworker[w].pc = "ready"
    /\ LET n == kworker[w].msg.order_number
       IN \/ /\ OrderExists(n)
             /\ orders' = UpdateOrderCompletedSQL(orders, StatusReady, n)
             /\ order_status_log' =
                   InsertOrderStatusLogSQL(order_status_log, OrderRow(n).id,
                                           StatusReady, w)
             /\ workers' = UpdateWorkerHeartbeatSQL(workers, 1, w)
             /\ kworker' = [kworker EXCEPT ![w].pc = "notify_ready"]
          \/ /\ UNCHANGED <<orders, order_status_log, workers>>
             /\ kworker' = [kworker EXCEPT ![w].pc = "returned",
                                           ![w].err = "ready_failed"]
    /\ UNCHANGED <<order_items, nextOrderId, today, intakeVars, legacyVars, lifeVars, sideVars,
                   brokerVars, kconf>>

\* the ready notification with its publish error returned to the consumer
PublishReadyNotification_ErrorReturned(w) ==
    /\ kworker[w].pc = "notify_ready"
    /\ \/ /\ notifications' = Append(notifications,
                CreateStatusUpdateMessage(kworker[w].msg.order_number,
                    StatusCooking, StatusReady, w, FALSE))
          /\ kworker' = [kworker EXCEPT ![w].pc = "returned"]
       \/ /\ UNCHANGED notifications
          /\ kworker' = [kworker EXCEPT ![w].pc = "returned",
                                        ![w].err = "notify_failed"]
    /\ UNCHANGED <<storeVars, today, intakeVars, legacyVars, lifeVars, sideVars, workers,
                   queues, deliveries, kconf>>

\* PublishNotification of the ready update; processOrder returns nil
PublishReadyNotification(w) ==
    /\ kworker[w].pc = "notify_ready"
    /\ \/ notifications' = Append(notifications,
              CreateStatusUpdateMessage(kworker[w].msg.order_number,
                  StatusCooking, StatusReady, w, FALSE))
       \/ UNCHANGED notifications
    /\ kworker' = [kworker EXCEPT ![w].pc = "returned"]
    /\ UNCHANGED <<storeVars, today, intakeVars, legacyVars, lifeVars, sideVars, workers,
                   queues, deliveries, kconf>>

\* a consumer that acknowledges whatever the handler returned
processMessage_AckAlways(w) ==
    /\ kworker[w].pc = "returned"
    /\ kworker' = [kworker EXCEPT ![w].pc = "idle", ![w].msg = NoMessage,
                                  ![w].outcome = "ack"]
    /\ UNCHANGED <<storeVars, today, intakeVars, legacyVars, lifeVars, sideVars, workers,
                   brokerVars, kconf>>

\* Consumer.processMessage after the handler returned: Nack(false, true) on
\* an error, Ack otherwise.  An Ack that fails leaves the delivery
\* unacknowledged and the broker makes it again.
processMessage(w) ==
    /\ kworker[w].pc = "returned"
    /\ \/ /\ kworker[w].err # None
          /\ queues' = [queues EXCEPT ![kconf[w].queue] = @ \cup {kworker[w].msg}]
          /\ kworker' = [kworker EXCEPT ![w].pc = "idle", ![w].msg = NoMessage,
                                        ![w].outcome = "nack"]
       \/ /\ kworker[w].err = None
          /\ UNCHANGED queues
          /\ kworker' = [kworker EXCEPT ![w].pc = "idle", ![w].msg = NoMessage,
                                        ![w].outcome = "ack"]
       \/ /\ kworker[w].err = None
          /\ queues' = [queues EXCEPT ![kconf[w].queue] = @ \cup {kworker[w].msg}]
          /\ kworker' = [kworker EXCEPT ![w].pc = "idle", ![w].msg = NoMessage,
                                        ![w].outcome = "ack_failed"]
    /\ UNCHANGED <<storeVars, today, intakeVars, legacyVars, lifeVars, sideVars, workers,
                   notifications, deliveries, kconf>>

(***************************************************************************)
(* Worker lifecycle: Worker.Start, registerWorker, heartbeatLoop, the      *)
(* consumer goroutine, gracefulShutdown, and the signal handling of main.  *)
(* lproc[p].shutdown, .done and .sigChan count the values buffered in the  *)
(* channels w.shutdown, w.done and main's sigChan (capacity 1 each).       *)
(***************************************************************************)
\* a check that finds no row
CheckWorkerOnlineSQL_NoMatch(tbl, name) == 0

\* SELECT COUNT(*) FROM workers WHERE name = $1 AND status = 'online'
CheckWorkerOnlineSQL(tbl, name) ==
    IF tbl[name].status = WorkerOnline THEN 1 ELSE 0

\* INSERT ... VALUES ($1, $2, 'online') ON CONFLICT (name) DO UPDATE SET
\* status = 'online'
InsertWorkerSQL(tbl, name) ==
    [tbl EXCEPT ![name] =
        IF tbl[name] = NoRow
        THEN [status |-> WorkerOnline, orders_processed |-> 0]
        ELSE [tbl[name] EXCEPT !.status = WorkerOnline]]

\* UPDATE workers SET status = $1, last_seen = NOW() WHERE name = $2
UpdateWorkerStatusSQL(tbl, status, name) ==
    [tbl EXCEPT ![name] =
        IF tbl[name] = NoRow THEN NoRow ELSE [tbl[name] EXCEPT !.status = status]]

LifeFrame == UNCHANGED <<storeVars, today, intakeVars, legacyVars, brokerVars, sideVars,
                         kitchenVars>>

\* the process is launched and main calls Worker.Start; processes are
\* numbered in their order of launch
StartWorker(p) ==
    /\ lproc[p].pc = "new"
    /\ \A q \in Procs : q < p => lproc[q].pc # "new"
    /\ lproc' = [lproc EXCEPT ![p].pc = "check"]
    /\ UNCHANGED workers
    /\ LifeFrame

\* registerWorker, the check: an error of the query or a count above 0
\* makes Start return an error
registerWorkerCheck(p) ==
    /\ lproc[p].pc = "check"
    /\ \/ /\ CheckWorkerOnlineSQL(workers, WorkerName) > 0
          /\ lproc' = [lproc EXCEPT ![p].pc = "returned",
                                    ![p].seen = workers[WorkerName].status,
                                    ![p].result = "already_online"]
       \/ /\ CheckWorkerOnlineSQL(workers, WorkerName) = 0
          /\ lproc' = [lproc EXCEPT ![p].pc = "insert",
                                    ![p].seen = workers[WorkerName].status]
       \/ lproc' = [lproc EXCEPT ![p].pc = "returned", ![p].result = "db_error"]
    /\ UNCHANGED workers
    /\ LifeFrame

\* registerWorker, the upsert
registerWorkerInsert(p) ==
    /\ lproc[p].pc = "insert"
    /\ \/ /\ workers' = InsertWorkerSQL(workers, WorkerName)
          /\ lproc' = [lproc EXCEPT ![p].pc = "spawn", ![p].registered = TRUE]
       \/ /\ UNCHANGED workers
          /\ lproc' = [lproc EXCEPT ![p].pc = "returned", ![p].result = "db_error"]
    /\ LifeFrame

\* signal.Notify(w.shutdown), go heartbeatLoop, go StartConsuming; Start
\* then waits in its select
StartGoroutines(p) ==
    /\ lproc[p].pc = "spawn"
    /\ lproc' = [lproc EXCEPT ![p].pc = "select", ![p].notified = TRUE,
                              ![p].hb = "loop", ![p].cons = "consuming"]
    /\ UNCHANGED workers
    /\ LifeFrame

\* an external SIGINT/SIGTERM reaches the process: the runtime sends it,
\* without blocking, to every channel registered with signal.Notify
Signal(p) ==
    /\ lproc[p].pc \in {"check", "insert", "spawn", "select", "graceful"}
    /\ ~lproc[p].signalled
    /\ lproc' = [lproc EXCEPT ![p].signalled = TRUE,
                              ![p].sigChan = 1,
                              ![p].shutdown = IF lproc[p].notified THEN 1 ELSE @]
    /\ UNCHANGED workers
    /\ LifeFrame

\* main's goroutine: <-sigChan; cancel()
MainCancel(p) ==
    /\ lproc[p].pc \notin {"new", "exited"}
    /\ lproc[p].sigChan = 1
    /\ lproc' = [lproc EXCEPT ![p].sigChan = 0, ![p].cancelled = TRUE]
    /\ UNCHANGED workers
    /\ LifeFrame

\* heartbeatLoop, case <-ticker.C: sendHeartbeat writes status online; an
\* Exec that fails, as it does when ctx is cancelled, writes nothing
HeartbeatTick(p) ==
    /\ lproc[p].hb = "loop"
    /\ ~lproc[p].cancelled
    /\ workers' = UpdateWorkerStatusSQL(workers, WorkerOnline, WorkerName)
    /\ UNCHANGED lproc
    /\ LifeFrame

\* heartbeatLoop, case <-ctx.Done()
HeartbeatCtxDone(p) ==
    /\ lproc[p].hb = "loop"
    /\ lproc[p].cancelled
    /\ lproc' = [lproc EXCEPT ![p].hb = "exited"]
    /\ UNCHANGED workers
    /\ LifeFrame

\* heartbeatLoop, case <-w.shutdown: the signal is taken from the channel
HeartbeatShutdown(p) ==
    /\ lproc[p].hb = "loop"
    /\ lproc[p].shutdown = 1
    /\ lproc' = [lproc EXCEPT ![p].hb = "exited", ![p].shutdown = 0]
    /\ UNCHANGED workers
    /\ LifeFrame

\* the consumer goroutine: StartConsuming returns on ctx.Done and the
\* goroutine sends on w.done
ConsumerFinished(p) ==
    /\ lproc[p].cons = "consuming"
    /\ lproc[p].cancelled
    /\ lproc' = [lproc EXCEPT ![p].cons = "finished", ![p].done = 1]
    /\ UNCHANGED workers
    /\ LifeFrame

\* Start's select, case <-w.shutdown
StartShutdownBranch(p) ==
    /\ lproc[p].pc = "select"
    /\ lproc[p].shutdown = 1
    /\ lproc' = [lproc EXCEPT ![p].pc = "graceful", ![p].shutdown = 0]
    /\ UNCHANGED workers
    /\ LifeFrame

\* Start's select, case <-w.done: return nil
StartDoneBranch(p) ==
    /\ lproc[p].pc = "select"
    /\ lproc[p].done = 1
    /\ lproc' = [lproc EXCEPT ![p].pc = "returned", ![p].done = 0,
                              ![p].result = "ok"]
    /\ UNCHANGED workers
    /\ LifeFrame

\* gracefulShutdown: the Exec writes status offline on a live ctx and fails
\* on a cancelled one (the error is logged only); the consumer is closed and
\* Start returns nil
gracefulShutdown(p) ==
    /\ lproc[p].pc = "graceful"
    /\ \/ /\ ~lproc[p].cancelled
          /\ workers' = UpdateWorkerStatusSQL(workers, WorkerOffline, WorkerName)
          /\ lproc' = [lproc EXCEPT ![p].pc = "returned", ![p].result = "ok",
                         ![p].wentOffline = TRUE,
                         ![p].cons = IF @ = "consuming" THEN "closed" ELSE @]
       \/ /\ lproc[p].cancelled
          /\ UNCHANGED workers
          /\ lproc' = [lproc EXCEPT ![p].pc = "returned", ![p].result = "ok",
                         ![p].cons = IF @ = "consuming" THEN "closed" ELSE @]
    /\ LifeFrame

\* Start has returned: main returns and the process, with its goroutines,
\* is gone
Exit(p) ==
    /\ lproc[p].pc = "returned"
    /\ lproc' = [lproc EXCEPT ![p].pc = "exited", ![p].hb = "none",
                              ![p].cons = "none", ![p].shutdown = 0,
                              ![p].done = 0, ![p].sigChan = 0]
    /\ UNCHANGED workers
    /\ LifeFrame

(***************************************************************************)
(* The worker process with its consumer at work: the lifecycle of process  *)
(* ShutdownProc (Worker.Start) beside the handling of deliveries by its    *)
(* consumer goroutine.  The handler's context derives from the ctx of      *)
(* main; every delivery is acknowledged on the channel of the connection   *)
(* that Consumer.Close closes.                                             *)
(***************************************************************************)
ShutdownProc == 1

\* Start has registered the worker and started its goroutines
Started ==
    [NotStarted EXCEPT !.pc = "select", !.hb = "loop", !.cons = "consuming",
                       !.notified = TRUE, !.registered = TRUE]

\* StartConsuming, case d := <-msgs, while the consumer is registered; the
\* select may take it although ctx is done
ConsumerDeliver(p) ==
    /\ lproc[p].cons = "consuming"
    /\ Deliver(WorkerName)

\* StartConsuming, case <-ctx.Done(): taken between two deliveries
ConsumerStopped(p) ==
    /\ kworker[WorkerName].pc = "idle"
    /\ ConsumerFinished(p)

\* the handler's statements on the store fail once ctx is cancelled
ConsumerHandleMessage(p) ==
    /\ lproc[p].pc # "exited"
    /\ handleMessage(WorkerName)

ConsumerUpdateOrderStatus(p) ==
    /\ updateOrderStatus(WorkerName)
    /\ lproc[p].cancelled => kworker'[WorkerName].err # None

ConsumerPublishCooking(p) ==
    /\ lproc[p].pc # "exited"
    /\ PublishCookingNotification(WorkerName)

ConsumerUpdateOrderStatusReady(p) ==
    /\ updateOrderStatusReady(WorkerName)
    /\ lproc[p].cancelled => kworker'[WorkerName].err # None

ConsumerPublishReady(p) ==
    /\ lproc[p].pc # "exited"
    /\ PublishReadyNotification(WorkerName)

\* processMessage: Ack and Nack fail on the channel Consumer.Close closed,
\* and the broker makes the unacknowledged delivery again
ConsumerProcessMessage(p) ==
    /\ processMessage(WorkerName)
    /\ lproc[p].cons = "closed" => kworker'[WorkerName].outcome # "ack"

\* Start has returned and main returns: the process is gone with its
\* goroutines; a delivery still in hand was never acknowledged and goes
\* back to its queue
ExitWorker(p) ==
    /\ lproc[p].pc = "returned"
    /\ lproc' = [lproc EXCEPT ![p].pc = "exited", ![p].hb = "none",
                              ![p].cons = "none", ![p].shutdown = 0,
                              ![p].done = 0, ![p].sigChan = 0]
    /\ IF kworker[WorkerName].pc = "idle"
       THEN UNCHANGED <<queues, kworker>>
       ELSE /\ queues' = [queues EXCEPT ![kconf[WorkerName].queue] =
                             @ \cup {kworker[WorkerName].msg}]
            /\ kworker' = [kworker EXCEPT ![WorkerName] =
                             [IdleWorker EXCEPT !.outcome = "aborted"]]
    /\ UNCHANGED <<storeVars, today, intakeVars, legacyVars, sideVars, workers,
                   notifications, deliveries, kconf>>

(***************************************************************************)
(* The tracking reader: tracking.Handler over tracking.Service.  Times are *)
(* seconds; a row of orders carries updated_at and a row of workers        *)
(* last_seen where the reader is modelled.  An error is the sequence of    *)
(* the messages wrapped into it, outermost first.                          *)
(***************************************************************************)
\* database/sql's and pgx's no-rows errors are different values
sql_ErrNoRows == <<"sql: no rows in result set">>
pgx_ErrNoRows == <<"no rows in result set">>
NoErr == <<>>

NoEstimate == [present |-> FALSE, value |-> 0]
NoTrackingResponse ==
    [order_number |-> NoNumber, current_status |-> None, updated_at |-> 0,
     estimated_completion |-> NoEstimate, processed_by |-> None]

NoTracking ==
    [pc |-> "idle", endpoint |-> None, number |-> NoNumber, now |-> 0,
     status |-> 0, message |-> None, order |-> NoTrackingResponse,
     history |-> <<>>, roster |-> <<>>]

\* strings.Contains(err.Error(), "not found")
ContainsNotFound(err) == \E i \in 1..Len(err) : err[i] = "order not found"

\* SELECT ... FROM orders WHERE number = $1
GetOrderByNumberSQL(number) == SelectSeq(orders, LAMBDA r : r.number = number)

\* pgx's Row.Scan: ErrNoRows of pgx when the query returned no row
RowScan(rows) == IF rows = <<>> THEN pgx_ErrNoRows ELSE NoErr

\* a preparation time that ignores the order type
GetCookingTime_Default(orderType) == 10

GetCookingTime(orderType) ==
    CASE orderType = "dine_in" -> 8
      [] orderType = "takeout" -> 10
      [] orderType = "delivery" -> 12
      [] OTHER -> 10

\* Service.GetOrderStatus
GetOrderStatus(orderNumber) ==
    LET rows == GetOrderByNumberSQL(orderNumber)
        err == RowScan(rows)
    IN IF err # NoErr
       THEN IF err = sql_ErrNoRows
            THEN [err |-> <<"order not found">>, response |-> NoTrackingResponse]
            ELSE [err |-> <<"database error">> \o err,
                  response |-> NoTrackingResponse]
       ELSE LET order == rows[1]
            IN [err |-> NoErr,
                response |->
                  [order_number |-> order.number,
                   current_status |-> order.status,
                   updated_at |-> order.updated_at,
                   estimated_completion |->
                       IF order.status = StatusCooking
                       THEN [present |-> TRUE,
                             value |-> order.updated_at + GetCookingTime(order.type)]
                       ELSE NoEstimate,
                   processed_by |-> order.processed_by]]

\* SELECT status, changed_by ... WHERE order_id = (SELECT id FROM orders
\* WHERE number = $1) ORDER BY changed_at ASC
GetOrderStatusHistorySQL(number) ==
    LET ids == { orders[i].id : i \in { j \in 1..Len(orders) : orders[j].number = number } }
        rows == SelectSeq(order_status_log, LAMBDA r : r.order_id \in ids)
    IN [k \in 1..Len(rows) |->
           [status |-> rows[k].status, changed_by |-> rows[k].changed_by]]

\* Service.GetOrderHistory
GetOrderHistory(orderNumber) ==
    IF GetOrderByNumberSQL(orderNumber) = <<>>
    THEN [err |-> <<"order not found">>, history |-> <<>>]
    ELSE [err |-> NoErr, history |-> GetOrderStatusHistorySQL(orderNumber)]

\* Service.GetWorkerStatus at time now: 2 * 30 seconds is the threshold
heartbeatThreshold == 2 * 30

GetWorkerStatus(now) ==
    [w \in { v \in KWorkers : workers[v] # NoRow } |->
        [status |->
            IF workers[w].status = WorkerOnline
               /\ now - workers[w].last_seen > heartbeatThreshold
            THEN "offline"
            ELSE workers[w].status,
         orders_processed |-> workers[w].orders_processed,
         last_seen |-> workers[w].last_seen]]

TrackFrame == UNCHANGED <<storeVars, today, intakeVars, legacyVars, workers,
                          brokerVars, kitchenVars, lifeVars, requestVars,
                          relayVars, maxConcurrent, conn>>

\* Handler.GetOrderStatus for a path extractOrderNumber accepts
HandlerGetOrderStatus ==
    /\ track.pc = "request"
    /\ track.endpoint = "status"
    /\ LET r == GetOrderStatus(track.number)
       IN track' =
            IF r.err # NoErr
            THEN IF ContainsNotFound(r.err)
                 THEN [track EXCEPT !.pc = "responded", !.status = 404,
                                    !.message = "Order not found"]
                 ELSE [track EXCEPT !.pc = "responded", !.status = 500,
                                    !.message = "Internal server error"]
            ELSE [track EXCEPT !.pc = "responded", !.status = 200,
                               !.order = r.response]
    /\ TrackFrame

\* Handler.GetOrderHistory
HandlerGetOrderHistory ==
    /\ track.pc = "request"
    /\ track.endpoint = "history"
    /\ LET r == GetOrderHistory(track.number)
       IN track' =
            IF r.err # NoErr
            THEN IF ContainsNotFound(r.err)
                 THEN [track EXCEPT !.pc = "responded", !.status = 404,
                                    !.message = "Order not found"]
                 ELSE [track EXCEPT !.pc = "responded", !.status = 500,
                                    !.message = "Internal server error"]
            ELSE [track EXCEPT !.pc = "responded", !.status = 200,
                               !.history = r.history]
    /\ TrackFrame

\* Handler.GetWorkerStatus
HandlerGetWorkerStatus ==
    /\ track.pc = "request"
    /\ track.endpoint = "workers"
    /\ track' = [track EXCEPT !.pc = "responded", !.status = 200,
                              !.roster = GetWorkerStatus(track.now)]
    /\ TrackFrame

(***************************************************************************)
(* One POST /orders request through validation and pricing.  A string is   *)
(* the record of its length (len() of the Go string) and of the kinds of   *)
(* character it contains; an optional JSON field is a record with the flag *)
(* present.  The same body is decoded into models.CreateOrderRequest       *)
(* (pointer fields) and into domain.OrderRequest (omitempty value fields). *)
(***************************************************************************)
Str(n, kinds) == [len |-> n, chars |-> kinds]
EmptyStr == Str(0, {})

Absent == [present |-> FALSE, value |-> 0]
Present(v) == [present |-> TRUE, value |-> v]
AbsentStr == [present |-> FALSE, value |-> EmptyStr]

\* customer_name values of the request bodies
NameChoices ==
    { EmptyStr,
      Str(8, {"letter", "space"}),
      Str(7, {"letter", "hyphen", "apostrophe"}),
      Str(100, {"letter"}),
      Str(101, {"letter"}),
      Str(8, {"letter", "digit"}),
      Str(8, {"letter", "tab"}) }

\* order_type values of the request bodies
TypeChoices == OrderTypes \cup {"pickup"}

\* table_number values of the request bodies
TableChoices == {Absent, Present(0), Present(1), Present(100), Present(101)}

\* delivery_address values of the request bodies
AddressChoices ==
    { AbsentStr,
      Present(EmptyStr),
      Present(Str(9, {"letter", "digit", "space"})),
      Present(Str(10, {"letter", "digit", "space"})) }

Item(nameLen, quantity, price) ==
    [name |-> Str(nameLen, IF nameLen = 0 THEN {} ELSE {"letter"}),
     quantity |-> quantity, price |-> price]

\* items values of the request bodies: the boundaries of the item rules and
\* of the priority thresholds, a price with three decimals, and 21 items
ItemsChoices ==
    { <<>>,
      <<Item(5, 2, 10 * Unit)>>,
      <<Item(5, 1, 50 * Unit)>>,
      <<Item(5, 1, 50 * Unit - Cent)>>,
      <<Item(5, 1, 100 * Unit)>>,
      <<Item(5, 1, 100 * Unit + Cent)>>,
      <<Item(5, 10, 999 * Unit + 99 * Cent)>>,
      <<Item(50, 1, Cent), Item(5, 3, 15)>>,
      <<Item(5, 1, 15)>>,
      <<Item(0, 1, 10 * Unit)>>,
      <<Item(51, 1, 10 * Unit)>>,
      <<Item(5, 0, 10 * Unit)>>,
      <<Item(5, 11, 10 * Unit)>>,
      <<Item(5, 1, 9)>>,
      <<Item(5, 1, 999 * Unit + 99 * Cent + 1)>>,
      <<Item(5, 1, 10 * Unit), Item(5, 11, 10 * Unit)>>,
      [k \in 1..21 |-> Item(5, 1, Unit)] }

RequestBodies ==
    [customer_name : NameChoices, order_type : TypeChoices,
     table_number : TableChoices, delivery_address : AddressChoices,
     items : ItemsChoices]

NoBody ==
    [customer_name |-> EmptyStr, order_type |-> None, table_number |-> Absent,
     delivery_address |-> AbsentStr, items |-> <<>>]

\* an error value: the field its message names (for an item, with its
\* index), or NoError for nil
NoError == [field |-> None, index |-> 0]
FieldError(f) == [field |-> f, index |-> 0]
ItemError(i, f) == [field |-> f, index |-> i]

(***************************************************************************)
(* models (part_006): CreateOrderRequest.Validate                          *)
(***************************************************************************)
\* regexp ^[a-zA-Z\s\-']+$ : \s takes the tab as well as the space
validNamePattern(name) ==
    name.len > 0 /\ name.chars \subseteq {"letter", "space", "tab", "hyphen", "apostrophe"}

validateCustomerName(name) ==
    IF name.len = 0 THEN FieldError("customer_name")
    ELSE IF name.len > 100 THEN FieldError("customer_name")
    ELSE IF ~validNamePattern(name) THEN FieldError("customer_name")
    ELSE NoError

validateOrderType(orderType) ==
    IF orderType \in {DineIn, Takeout, Delivery} THEN NoError
    ELSE FieldError("order_type")

validateConditionalFields(orderType, tableNumber, deliveryAddress) ==
    CASE orderType = DineIn ->
           IF ~tableNumber.present THEN FieldError("table_number")
           ELSE IF tableNumber.value < 1 \/ tableNumber.value > 100
                THEN FieldError("table_number")
           ELSE IF deliveryAddress.present THEN FieldError("delivery_address")
           ELSE NoError
      [] orderType = Delivery ->
           IF ~deliveryAddress.present \/ deliveryAddress.value.len = 0
           THEN FieldError("delivery_address")
           ELSE IF deliveryAddress.value.len < 10 THEN FieldError("delivery_address")
           ELSE IF tableNumber.present THEN FieldError("table_number")
           ELSE NoError
      [] orderType = Takeout ->
           IF tableNumber.present THEN FieldError("table_number")
           ELSE IF deliveryAddress.present THEN FieldError("delivery_address")
           ELSE NoError
      [] OTHER -> NoError

validateItem(item, index) ==
    IF item.name.len = 0 THEN ItemError(index, "items.name")
    ELSE IF item.name.len > 50 THEN ItemError(index, "items.name")
    ELSE IF item.quantity < 1 \/ item.quantity > 10 THEN ItemError(index, "items.quantity")
    ELSE IF item.price < Cent \/ item.price > 999 * Unit + 99 * Cent
         THEN ItemError(index, "items.price")
    ELSE NoError

\* the error of the first item that has one
RECURSIVE FirstItemError(_, _)
FirstItemError(items, i) ==
    IF i > Len(items) THEN NoError
    ELSE IF validateItem(items[i], i - 1) # NoError THEN validateItem(items[i], i - 1)
    ELSE FirstItemError(items, i + 1)

validateItems(items) ==
    IF Len(items) = 0 THEN FieldError("items")
    ELSE IF Len(items) > 20 THEN FieldError("items")
    ELSE FirstItemError(items, 1)

Validate(req) ==
    IF validateCustomerName(req.customer_name) # NoError
    THEN validateCustomerName(req.customer_name)
    ELSE IF validateOrderType(req.order_type) # NoError
    THEN validateOrderType(req.order_type)
    ELSE IF validateConditionalFields(req.order_type, req.table_number,
                                      req.delivery_address) # NoError
    THEN validateConditionalFields(req.order_type, req.table_number,
                                   req.delivery_address)
    ELSE validateItems(req.items)

(***************************************************************************)
(* validation (part_004): ValidateOrderRequest on domain.OrderRequest      *)
(***************************************************************************)
\* json decoding into the value fields TableNumber int and DeliveryAddr
\* string: an absent field is the zero value
DecodeOrderRequest(body) ==
    [customer_name |-> body.customer_name, order_type |-> body.order_type,
     TableNumber |-> IF body.table_number.present THEN body.table_number.value ELSE 0,
     DeliveryAddr |-> IF body.delivery_address.present
                      THEN body.delivery_address.value ELSE EmptyStr,
     items |-> body.items]

validation_validateCustomerName(name) ==
    IF name.len = 0 THEN FieldError("customer_name")
    ELSE IF name.len > 100 THEN FieldError("customer_name")
    ELSE NoError

validation_validateOrderType(orderType) ==
    IF orderType \in {Takeout, DineIn, Delivery} THEN NoError
    ELSE FieldError("order_type")

validateOrderTypeConditions(req) ==
    IF req.order_type = Delivery /\ req.DeliveryAddr.len = 0
    THEN FieldError("delivery_address")
    ELSE IF req.order_type = DineIn /\ req.TableNumber = 0
    THEN FieldError("table_number")
    ELSE NoError

validation_validateItem(item, index) ==
    IF item.name.len = 0 THEN ItemError(index, "items.name")
    ELSE IF item.name.len > 50 THEN ItemError(index, "items.name")
    ELSE IF item.quantity <= 0 THEN ItemError(index, "items.quantity")
    ELSE IF item.quantity > 10 THEN ItemError(index, "items.quantity")
    ELSE IF item.price < Cent THEN ItemError(index, "items.price")
    ELSE IF item.price > 999 * Unit + 99 * Cent THEN ItemError(index, "items.price")
    ELSE NoError

RECURSIVE validation_FirstItemError(_, _)
validation_FirstItemError(items, i) ==
    IF i > Len(items) THEN NoError
    ELSE IF validation_validateItem(items[i], i - 1) # NoError
    THEN validation_validateItem(items[i], i - 1)
    ELSE validation_FirstItemError(items, i + 1)

validation_validateItems(items) ==
    IF Len(items) = 0 THEN FieldError("items")
    ELSE IF Len(items) > 20 THEN FieldError("items")
    ELSE validation_FirstItemError(items, 1)

ValidateOrderRequest(req) ==
    IF validation_validateCustomerName(req.customer_name) # NoError
    THEN validation_validateCustomerName(req.customer_name)
    ELSE IF validation_validateOrderType(req.order_type) # NoError
    THEN validation_validateOrderType(req.order_type)
    ELSE IF validateOrderTypeConditions(req) # NoError
    THEN validateOrderTypeConditions(req)
    ELSE validation_validateItems(req.items)

(***************************************************************************)
(* The two request paths.  status is the HTTP status of the answer (0: no  *)
(* answer yet); numbered tells that an order number was generated; stored  *)
(* is the orders row as its DECIMAL(10,2) and INTEGER columns hold it.     *)
(***************************************************************************)
NoRoutingKey == <<>>

IdleHandling ==
    [pc |-> "idle", err |-> NoError, status |-> 0, numbered |-> FALSE,
     stored |-> [total_amount |-> 0, priority |-> 0],
     response |-> [total_amount |-> 0],
     message |-> [total_amount |-> 0, priority |-> 0],
     routingKey |-> NoRoutingKey,
     errorBody |-> None, logged |-> None]

Decoded == [IdleHandling EXCEPT !.pc = "decoded"]

RequestFrame == UNCHANGED <<storeVars, today, intakeVars, legacyVars, workers,
                            brokerVars, kitchenVars, lifeVars, relayVars, hreq,
                            maxConcurrent, track, conn>>

\* the errors Service.CreateOrder returns
CreateOrderErrors ==
    {"context deadline exceeded", "failed to generate order number",
     "failed to begin transaction", "failed to insert order",
     "failed to insert order item", "failed to insert initial status",
     "failed to commit transaction"}

\* a handler that calls the service whatever Validate returned
HandlerValidate_Unchecked ==
    /\ hcall.pc = "decoded"
    /\ hcall' = [hcall EXCEPT !.pc = "create"]
    /\ UNCHANGED vcall
    /\ RequestFrame

\* Handler.CreateOrder from req.Validate(): a validation error is answered
\* with 400 and the error text, and Service.CreateOrder is not called
HandlerValidate ==
    /\ hcall.pc = "decoded"
    /\ IF Validate(hreq) # NoError
       THEN hcall' = [hcall EXCEPT !.pc = "responded", !.status = 400,
                                   !.err = Validate(hreq),
                                   !.errorBody = "err.Error()",
                                   !.logged = "validation_failed"]
       ELSE hcall' = [hcall EXCEPT !.pc = "create"]
    /\ UNCHANGED vcall
    /\ RequestFrame

\* the work message of the request at the handler
HandlerOrderMessage ==
    CreateOrderMessageFromRequest(hreq, GenerateOrderNumber(today, 1),
                                  CalculatePriority(hreq))

\* Service.CreateOrder as far as the amounts and the routing go: total and
\* priority are computed from the request, bound to the INSERT, returned in
\* the response and carried by the work message, which is published with
\* the routing key (an error of the publish is logged only); any other
\* failure is answered with 500
HandlerCreateOrder ==
    /\ hcall.pc = "create"
    /\ \/ /\ LET totalAmount == CalculateTotalAmount(hreq)
                 priority == CalculatePriority(hreq)
             IN hcall' = [hcall EXCEPT
                    !.pc = "responded", !.status = 200, !.numbered = TRUE,
                    !.stored = [total_amount |-> Decimal2(totalAmount),
                                priority |-> priority],
                    !.response = [order_number |-> GenerateOrderNumber(today, 1),
                                  status |-> StatusReceived,
                                  total_amount |-> totalAmount],
                    !.message = [total_amount |-> CalculateTotalAmount(hreq),
                                 priority |-> priority],
                    !.routingKey = GenerateRoutingKey(hreq.order_type, priority)]
          /\ \/ /\ published' = Append(published, HandlerOrderMessage)
                /\ queues' = Route(queues,
                                   GenerateRoutingKey(hreq.order_type,
                                                      CalculatePriority(hreq)),
                                   HandlerOrderMessage)
             \/ UNCHANGED <<published, queues>>
       \/ /\ \E cause \in CreateOrderErrors :
                hcall' = [hcall EXCEPT !.pc = "responded", !.status = 500,
                                       !.errorBody = "Internal server error",
                                       !.logged = cause]
          /\ UNCHANGED <<published, queues>>
    /\ UNCHANGED <<vcall, storeVars, today, call, semaphore, orderNumberMutex,
                   legacyVars, workers, notifications, deliveries,
                   kitchenVars, lifeVars, relayVars, hreq, maxConcurrent,
                   track, conn>>

\* OrderService.CreateOrder from ValidateOrderRequest
OrderServiceValidate ==
    /\ vcall.pc = "decoded"
    /\ LET err == ValidateOrderRequest(DecodeOrderRequest(hreq))
       IN IF err # NoError
          THEN vcall' = [vcall EXCEPT !.pc = "responded", !.status = 400, !.err = err]
          ELSE vcall' = [vcall EXCEPT !.pc = "create"]
    /\ UNCHANGED hcall
    /\ RequestFrame

\* OrderService.CreateOrder as far as the amounts go
OrderServiceCreateOrder ==
    /\ vcall.pc = "create"
    /\ \/ LET total == countTotalPrice(hreq)
          IN vcall' = [vcall EXCEPT
                 !.pc = "responded", !.status = 200, !.numbered = TRUE,
                 !.stored = [total_amount |-> Decimal2(total),
                             priority |-> setOrderPriority(total)],
                 !.response = [total_amount |-> total]]
       \/ vcall' = [vcall EXCEPT !.pc = "responded", !.status = 500, !.numbered = TRUE]
    /\ UNCHANGED hcall
    /\ RequestFrame

\* UTC date rollover
DayRollover ==
    /\ today < MaxDay
    /\ today' = today + 1
    /\ UNCHANGED <<storeVars, intakeVars, legacyVars, restVars>>

InitStore ==
    /\ orders = <<>>
    /\ order_items = <<>>
    /\ order_status_log = <<>>
    /\ nextOrderId = 1

\* no request is in the validation and pricing paths
(***************************************************************************)
(* Notification relays.  setupTopology binds one queue, notifications_queue, *)
(* to notifications_fanout; every message published to the exchange is     *)
(* appended to it, so the queue holds the notifications the broker has not  *)
(* yet handed to a consumer.  Each relay is a Subscriber whose Consumer     *)
(* consumes that queue with manual acknowledgement.                         *)
(***************************************************************************)
Relays == 1..MaxRelays

IdleRelay == [pc |-> "idle", tag |-> 0, displayed |-> {}]

\* the messages waiting in notifications_queue
notifications_queue ==
    SubSeq(notifications, notificationsDelivered + 1, Len(notifications))

\* Subscriber.Start has called StartConsuming: the relay is a consumer of
\* the queue
ConsumingRelay == [IdleRelay EXCEPT !.pc = "consuming"]

\* the broker hands the head of the queue to one of the consumers of the
\* queue that has no unacknowledged delivery
RelayDeliver(r) ==
    /\ relay[r].pc = "consuming"
    /\ notifications_queue # <<>>
    /\ notificationsDelivered' = notificationsDelivered + 1
    /\ relay' = [relay EXCEPT ![r].pc = "handling",
                              ![r].tag = notificationsDelivered + 1]
    /\ UNCHANGED <<storeVars, today, intakeVars, legacyVars, workers,
                   brokerVars, kitchenVars, lifeVars, requestVars,
                   maxConcurrent, track, conn>>

\* handleNotification parses the update and displays it; it returns nil and
\* processMessage acknowledges the delivery
handleNotification(r) ==
    /\ relay[r].pc = "handling"
    /\ relay' = [relay EXCEPT ![r].pc = "consuming",
                              ![r].displayed = @ \cup {relay[r].tag},
                              ![r].tag = 0]
    /\ UNCHANGED <<storeVars, today, intakeVars, legacyVars, workers,
                   brokerVars, kitchenVars, lifeVars, requestVars,
                   notificationsDelivered, maxConcurrent, track, conn>>

InitRelays ==
    /\ notificationsDelivered = 0
    /\ relay = [r \in Relays |-> IdleRelay]

InitRequestIdle ==
    /\ hreq = NoBody
    /\ hcall = IdleHandling
    /\ vcall = IdleHandling

\* NewService is given the capacity MaxConcurrent
InitCapacity == maxConcurrent = MaxConcurrent

\* no request is at the tracking handler
InitReaderIdle == track = NoTracking

(***************************************************************************)
(* One Consumer on its Connection: Consumer.StartConsuming with            *)
(* Connection.Reconnect, connect and setupTopology.  conn.open is the AMQP *)
(* connection, conn.declared the declarations made on its channel so far,  *)
(* conn.i the index of connect's retry loop, conn.done whether ctx is done. *)
(***************************************************************************)
\* connect: maxRetries := 5
maxRetries == 5

\* setupTopology, in the order of its declarations
Topology ==
    << <<"exchange", "orders_topic">>,
       <<"exchange", "notifications_fanout">>,
       <<"queue", "kitchen_queue">>,
       <<"queue", "kitchen_dine_in_queue">>,
       <<"queue", "kitchen_takeout_queue">>,
       <<"queue", "kitchen_delivery_queue">>,
       <<"binding", "kitchen_queue">>,
       <<"binding", "kitchen_dine_in_queue">>,
       <<"binding", "kitchen_takeout_queue">>,
       <<"binding", "kitchen_delivery_queue">>,
       <<"queue", "notifications_queue">>,
       <<"binding", "notifications_queue">> >>

TopologyItems == { Topology[k] : k \in 1..Len(Topology) }

Connected ==
    [pc |-> "consuming", i |-> 0, open |-> TRUE, declared |-> TopologyItems,
     done |-> FALSE, result |-> None]

ConnFrame == UNCHANGED <<storeVars, today, intakeVars, legacyVars, workers,
                         brokerVars, kitchenVars, lifeVars, requestVars,
                         relayVars, maxConcurrent, track>>

\* the ctx of StartConsuming is cancelled
CancelConsumerCtx ==
    /\ ~conn.done
    /\ conn.pc # "returned"
    /\ conn' = [conn EXCEPT !.done = TRUE]
    /\ ConnFrame

\* the delivery channel is closed under the consumer (the channel alone, or
\* the whole connection)
ChannelLost ==
    /\ conn.pc = "consuming"
    /\ \E stillOpen \in BOOLEAN :
          conn' = [conn EXCEPT !.pc = "closed", !.open = stillOpen,
                               !.declared = {}]
    /\ ConnFrame

\* StartConsuming's select, case <-ctx.Done(): return ctx.Err()
ConsumerCtxDone ==
    /\ conn.pc \in {"consuming", "closed"}
    /\ conn.done
    /\ conn' = [conn EXCEPT !.pc = "returned", !.result = "ctx_err"]
    /\ ConnFrame

\* a Reconnect that opens a new channel on the connection it has
Reconnect_ChannelOnly ==
    /\ conn.pc = "closed"
    /\ conn' = [conn EXCEPT !.pc = "start", !.open = TRUE]
    /\ ConnFrame

\* StartConsuming's select, case d, ok := <-msgs with !ok: Reconnect, which
\* closes channel and connection and calls connect
Reconnect ==
    /\ conn.pc = "closed"
    /\ conn' = [conn EXCEPT !.pc = "dial", !.i = 0, !.open = FALSE,
                             !.declared = {}]
    /\ ConnFrame

\* the end of an iteration of connect's loop that failed: the next
\* iteration, or the error after maxRetries iterations
NextAttempt(c) ==
    IF c.i + 1 < maxRetries
    THEN [c EXCEPT !.pc = "dial", !.i = c.i + 1, !.open = FALSE, !.declared = {}]
    ELSE [c EXCEPT !.pc = "connect_failed", !.i = c.i + 1, !.open = FALSE,
                   !.declared = {}]

\* connect, one iteration up to setupTopology: amqp091.Dial and
\* c.conn.Channel()
Dial ==
    /\ conn.pc = "dial"
    /\ \/ conn' = [conn EXCEPT !.pc = "topology", !.open = TRUE]
       \/ conn' = NextAttempt(conn)
    /\ ConnFrame

\* setupTopology, one declaration: it is made, or its error closes the
\* connection and ends the iteration; after the last one connect returns nil
setupTopology ==
    /\ conn.pc = "topology"
    /\ LET k == Cardinality(conn.declared) + 1
       IN \/ conn' = [conn EXCEPT
                        !.declared = @ \cup {Topology[k]},
                        !.pc = IF k = Len(Topology) THEN "start" ELSE "topology"]
          \/ conn' = NextAttempt(conn)
    /\ ConnFrame

\* StartConsuming returns the error of Reconnect
ReconnectFailed ==
    /\ conn.pc = "connect_failed"
    /\ conn' = [conn EXCEPT !.pc = "returned", !.result = "failed_to_reconnect"]
    /\ ConnFrame

\* the connection drops between connect and the Consume of StartConsuming
ConnectionDrops ==
    /\ conn.pc = "start"
    /\ conn.open
    /\ conn' = [conn EXCEPT !.open = FALSE, !.declared = {}]
    /\ ConnFrame

\* StartConsuming called again: IsClosed leads to another Reconnect; Qos
\* and Consume register the consumer or return their error
StartConsuming ==
    /\ conn.pc = "start"
    /\ IF ~conn.open
       THEN conn' = [conn EXCEPT !.pc = "dial", !.i = 0, !.declared = {}]
       ELSE \/ conn' = [conn EXCEPT !.pc = "consuming"]
            \/ conn' = [conn EXCEPT !.pc = "returned",
                                    !.result = "failed_to_register"]
    /\ ConnFrame

NextReconnect ==
    \/ CancelConsumerCtx
    \/ ChannelLost
    \/ ConsumerCtxDone
    \/ Reconnect
    \/ Dial
    \/ setupTopology
    \/ ReconnectFailed
    \/ ConnectionDrops
    \/ StartConsuming

\* messaging.New has connected and declared the topology, and the consumer
\* is registered
InitConnected == conn = Connected

InitSide ==
    /\ InitRequestIdle /\ InitRelays /\ InitCapacity /\ InitReaderIdle
    /\ InitConnected

InitBase ==
    /\ InitStore
    /\ today = 1
    /\ call = [c \in Calls |-> IdleCall]
    /\ semaphore = 0
    /\ orderNumberMutex = Unlocked
    /\ published = <<>>
    /\ ocall = [c \in Calls |-> IdleOCall]
    /\ orderCounter = 0
    /\ lastOrderDate = 0
    /\ workers = [w \in KWorkers |-> NoRow]
    /\ queues = [q \in Queues |-> {}]
    /\ notifications = <<>>
    /\ deliveries = 0
    /\ kconf = [w \in KWorkers |-> [orderTypes |-> {}, queue |-> "kitchen_queue"]]
    /\ kworker = [w \in KWorkers |-> IdleWorker]
    /\ lproc = [p \in Procs |-> NotStarted]

InitIntake == InitBase /\ InitSide

NextIntake ==
    \/ \E c \in Calls, r \in Requests : Submit(c, r)
    \/ \E c \in Calls : AcquireSemaphore(c)
    \/ \E c \in Calls : AcquireTimeout(c)
    \/ \E c \in Calls : LockOrderNumber(c)
    \/ \E c \in Calls : generateOrderNumber(c)
    \/ \E c \in Calls : BeginTx(c)
    \/ \E c \in Calls : InsertOrder(c)
    \/ \E c \in Calls : InsertOrderItem(c)
    \/ \E c \in Calls : InsertInitialStatus(c)
    \/ \E c \in Calls : CommitTx(c)
    \/ \E c \in Calls : PublishOrder(c)
    \/ DayRollover

SpecIntake == InitIntake /\ [][NextIntake]_vars

(***************************************************************************)
(* The intake semaphore: MaxCalls CreateOrder calls on a Service built     *)
(* with a capacity from 1 to MaxConcurrent, within one UTC day.            *)
(***************************************************************************)
InitSemaphore ==
    /\ InitBase
    /\ InitRequestIdle
    /\ InitRelays
    /\ maxConcurrent \in 1..MaxConcurrent
    /\ InitReaderIdle
    /\ InitConnected

NextSemaphore ==
    \/ \E c \in Calls : \E r \in {RequestList[1]} : Submit(c, r)
    \/ \E c \in Calls : AcquireSemaphore(c)
    \/ \E c \in Calls : AcquireTimeout(c)
    \/ \E c \in Calls : LockOrderNumber(c)
    \/ \E c \in Calls : generateOrderNumber(c)
    \/ \E c \in Calls : BeginTx(c)
    \/ \E c \in Calls : InsertOrder(c)
    \/ \E c \in Calls : InsertOrderItem(c)
    \/ \E c \in Calls : InsertInitialStatus(c)
    \/ \E c \in Calls : CommitTx(c)
    \/ \E c \in Calls : PublishOrder(c)

SpecSemaphore == InitSemaphore /\ [][NextSemaphore]_vars

NextOrderService ==
    \/ \E c \in Calls, r \in Requests : OSubmit(c, r)
    \/ \E c \in Calls : OSeedCounter(c)
    \/ \E c \in Calls : OIncrement(c)
    \/ \E c \in Calls : OInsertOrder(c)
    \/ \E c \in Calls : OInsertOrderItem(c)
    \/ \E c \in Calls : OAddInitialStatus(c)
    \/ DayRollover

SpecOrderService == InitIntake /\ [][NextOrderService]_vars

(***************************************************************************)
(* The kitchen after intake: MaxOrders orders created by CreateOrder on    *)
(* day 1, each with its items, its received log row and its work message   *)
(* routed; both workers registered and consuming one of the type queues.   *)
(***************************************************************************)
\* the orders are numbered so that their requests follow the order of
\* RequestList
RequestChoices ==
    { [k \in 1..MaxOrders |-> RequestList[idx[k]]] :
        idx \in { f \in [1..MaxOrders -> 1..Len(RequestList)] :
                    \A j, k \in 1..MaxOrders : j < k => f[j] <= f[k] } }

CreatedOrders(reqs) ==
    [k \in 1..MaxOrders |->
        [id |-> k, number |-> GenerateOrderNumber(1, k),
         customer_name |-> reqs[k].customer_name,
         type |-> reqs[k].order_type,
         table_number |-> reqs[k].table_number,
         delivery_address |-> reqs[k].delivery_address,
         total_amount |-> Decimal2(CalculateTotalAmount(reqs[k])),
         priority |-> CalculatePriority(reqs[k]),
         status |-> StatusReceived,
         processed_by |-> None, completed_at |-> FALSE, created_at |-> 1]]

RECURSIVE CreatedItems(_, _)
CreatedItems(reqs, k) ==
    IF k = 0 THEN <<>>
    ELSE CreatedItems(reqs, k - 1) \o
         [j \in 1..Len(reqs[k].items) |->
             [order_id |-> k, name |-> reqs[k].items[j].name]]

RECURSIVE RouteAll(_, _, _)
RouteAll(qs, reqs, k) ==
    IF k = 0 THEN qs
    ELSE Route(RouteAll(qs, reqs, k - 1),
               GenerateRoutingKey(reqs[k].order_type, CalculatePriority(reqs[k])),
               CreateOrderMessageFromRequest(reqs[k], GenerateOrderNumber(1, k),
                                             CalculatePriority(reqs[k])))

KitchenQueues == {"kitchen_takeout_queue", "kitchen_delivery_queue"}

InitKitchenWork ==
    /\ \E reqs \in RequestChoices :
          /\ orders = CreatedOrders(reqs)
          /\ order_items = CreatedItems(reqs, MaxOrders)
          /\ order_status_log =
                [k \in 1..MaxOrders |->
                    [order_id |-> k, status |-> StatusReceived,
                     changed_by |-> "order-service"]]
          /\ queues = RouteAll([q \in Queues |-> {}], reqs, MaxOrders)
    /\ nextOrderId = MaxOrders + 1
    /\ today = 1
    /\ call = [c \in Calls |-> IdleCall]
    /\ semaphore = 0
    /\ orderNumberMutex = Unlocked
    /\ published = <<>>
    /\ ocall = [c \in Calls |-> IdleOCall]
    /\ orderCounter = 0
    /\ lastOrderDate = 0
    /\ workers = [w \in KWorkers |-> [status |-> WorkerOnline, orders_processed |-> 0]]
    /\ notifications = <<>>
    /\ deliveries = 0
    /\ \E q1, q2 \in KitchenQueues :
          kconf = [w \in KWorkers |->
                      IF w = "chef_mario"
                      THEN [orderTypes |-> {}, queue |-> q1]
                      ELSE [orderTypes |-> {Takeout}, queue |-> q2]]
    /\ kworker = [w \in KWorkers |-> IdleWorker]

InitKitchen ==
    /\ InitKitchenWork
    /\ lproc = [p \in Procs |-> NotStarted]
    /\ InitSide

NextKitchen ==
    \/ \E w \in KWorkers : Deliver(w)
    \/ \E w \in KWorkers : handleMessage(w)
    \/ \E w \in KWorkers : updateOrderStatus(w)
    \/ \E w \in KWorkers : PublishCookingNotification(w)
    \/ \E w \in KWorkers : updateOrderStatusReady(w)
    \/ \E w \in KWorkers : PublishReadyNotification(w)
    \/ \E w \in KWorkers : processMessage(w)

SpecKitchen == InitKitchen /\ [][NextKitchen]_vars

(***************************************************************************)
(* The kitchen workers under fairness.  The broker makes a delivery to a   *)
(* consumer that is idle again and again, without a bound on the number of *)
(* deliveries; a transaction that is retried succeeds in the end, and so   *)
(* does an Ack.  Failures that leave rows behind (a failed ready           *)
(* transaction after the cooking one, an Ack that fails after the whole    *)
(* handling) stop once the log holds MaxLog rows.  The store holds         *)
(* MaxOrders orders; the work message of the first one was published, the   *)
(* publish of the others failed.                                           *)
(***************************************************************************)
MaxLog == MaxOrders + 3

Routed == {1}

InitFairKitchen ==
    /\ \E reqs \in RequestChoices :
          /\ orders = CreatedOrders(reqs)
          /\ order_items = CreatedItems(reqs, MaxOrders)
          /\ order_status_log =
                [k \in 1..MaxOrders |->
                    [order_id |-> k, status |-> StatusReceived,
                     changed_by |-> "order-service"]]
          /\ queues = RouteAll([q \in Queues |-> {}], reqs, Cardinality(Routed))
    /\ nextOrderId = MaxOrders + 1
    /\ today = 1
    /\ call = [c \in Calls |-> IdleCall]
    /\ semaphore = 0
    /\ orderNumberMutex = Unlocked
    /\ published = <<>>
    /\ ocall = [c \in Calls |-> IdleOCall]
    /\ orderCounter = 0
    /\ lastOrderDate = 0
    /\ workers = [w \in KWorkers |-> [status |-> WorkerOnline, orders_processed |-> 0]]
    /\ notifications = <<>>
    /\ deliveries = 0
    /\ \E q1, q2 \in KitchenQueues :
          kconf = [w \in KWorkers |->
                      IF w = "chef_mario"
                      THEN [orderTypes |-> {}, queue |-> q1]
                      ELSE [orderTypes |-> {Takeout}, queue |-> q2]]
    /\ kworker = [w \in KWorkers |-> IdleWorker]
    /\ lproc = [p \in Procs |-> NotStarted]
    /\ InitSide

FairDeliver(w) ==
    /\ kworker[w].pc = "idle"
    /\ \E m \in queues[kconf[w].queue] : Handover(w, m)
    /\ UNCHANGED <<storeVars, today, intakeVars, legacyVars, lifeVars, sideVars, workers,
                   notifications, deliveries, kconf>>

FairUpdateOrderStatusReady(w) ==
    /\ updateOrderStatusReady(w)
    /\ kworker'[w].err # None => Len(order_status_log) < MaxLog

FairProcessMessage(w) ==
    /\ processMessage(w)
    /\ kworker'[w].outcome = "ack_failed" => Len(order_status_log) < MaxLog

\* the steps that succeed
CookingCommitted(w) == updateOrderStatus(w) /\ kworker'[w].err = None
ReadyCommitted(w) == FairUpdateOrderStatusReady(w) /\ kworker'[w].err = None
Acknowledged(w) == FairProcessMessage(w) /\ kworker'[w].outcome # "ack_failed"

NextFairKitchen ==
    \/ \E w \in KWorkers : FairDeliver(w)
    \/ \E w \in KWorkers : handleMessage(w)
    \/ \E w \in KWorkers : updateOrderStatus(w)
    \/ \E w \in KWorkers : PublishCookingNotification(w)
    \/ \E w \in KWorkers : FairUpdateOrderStatusReady(w)
    \/ \E w \in KWorkers : PublishReadyNotification(w)
    \/ \E w \in KWorkers : FairProcessMessage(w)

FairnessKitchen ==
    \A w \in KWorkers :
        /\ SF_vars(FairDeliver(w))
        /\ WF_vars(handleMessage(w))
        /\ SF_vars(CookingCommitted(w))
        /\ WF_vars(PublishCookingNotification(w))
        /\ SF_vars(ReadyCommitted(w))
        /\ WF_vars(PublishReadyNotification(w))
        /\ SF_vars(Acknowledged(w))

SpecFairKitchen == InitFairKitchen /\ [][NextFairKitchen]_vars /\ FairnessKitchen

SpecReconnect == InitKitchen /\ [][NextReconnect]_vars

(***************************************************************************)
(* The per-message deadline: processMessage runs the handler on            *)
(* processingCtx, which expires 30 s after the delivery was taken.         *)
(* kworker[w].expired says that the deadline of the delivery in hand has   *)
(* passed.  The statements on the store take the ctx and fail once it is   *)
(* done; a publish succeeds or fails, and its error is logged only;        *)
(* time.Sleep, the return of the handler and delivery.Ack / delivery.Nack  *)
(* do not look at the ctx.                                                 *)
(***************************************************************************)
\* the deadline passes while the handler is running
DeadlineExpires(w) ==
    /\ kworker[w].pc \in {"handle", "cooking", "notify_cooking", "ready",
                          "notify_ready"}
    /\ ~kworker[w].expired
    /\ kworker' = [kworker EXCEPT ![w].expired = TRUE]
    /\ UNCHANGED <<storeVars, today, intakeVars, legacyVars, lifeVars, sideVars, workers,
                   brokerVars, kconf>>

DeadlineUpdateOrderStatus(w) ==
    /\ updateOrderStatus(w)
    /\ kworker[w].expired => kworker'[w].err # None

DeadlineUpdateOrderStatusReady(w) ==
    /\ updateOrderStatusReady(w)
    /\ kworker[w].expired => kworker'[w].err # None

NextDeadline ==
    \/ \E w \in KWorkers : Deliver(w)
    \/ \E w \in KWorkers : handleMessage(w)
    \/ \E w \in KWorkers : DeadlineExpires(w)
    \/ \E w \in KWorkers : DeadlineUpdateOrderStatus(w)
    \/ \E w \in KWorkers : PublishCookingNotification(w)
    \/ \E w \in KWorkers : DeadlineUpdateOrderStatusReady(w)
    \/ \E w \in KWorkers : PublishReadyNotification(w)
    \/ \E w \in KWorkers : processMessage(w)

SpecDeadline == InitKitchen /\ [][NextDeadline]_vars

(***************************************************************************)
(* The lifecycle of MaxProcs worker processes started under one name, on   *)
(* a store that holds no worker row yet.                                   *)
(***************************************************************************)
InitLifecycle == InitIntake

NextLifecycle ==
    \/ \E p \in Procs : StartWorker(p)
    \/ \E p \in Procs : registerWorkerCheck(p)
    \/ \E p \in Procs : registerWorkerInsert(p)
    \/ \E p \in Procs : StartGoroutines(p)
    \/ \E p \in Procs : Signal(p)
    \/ \E p \in Procs : MainCancel(p)
    \/ \E p \in Procs : HeartbeatTick(p)
    \/ \E p \in Procs : HeartbeatCtxDone(p)
    \/ \E p \in Procs : HeartbeatShutdown(p)
    \/ \E p \in Procs : ConsumerFinished(p)
    \/ \E p \in Procs : StartShutdownBranch(p)
    \/ \E p \in Procs : StartDoneBranch(p)
    \/ \E p \in Procs : gracefulShutdown(p)
    \/ \E p \in Procs : Exit(p)

SpecLifecycle == InitLifecycle /\ [][NextLifecycle]_vars

(***************************************************************************)
(* One request body, any of RequestBodies, taken by both request paths.    *)
(***************************************************************************)
InitRequest ==
    /\ InitBase
    /\ hreq \in RequestBodies
    /\ hcall = Decoded
    /\ vcall = Decoded
    /\ InitRelays
    /\ InitCapacity
    /\ InitReaderIdle
    /\ InitConnected

NextRequest ==
    \/ HandlerValidate
    \/ HandlerCreateOrder
    \/ OrderServiceValidate
    \/ OrderServiceCreateOrder

SpecRequest == InitRequest /\ [][NextRequest]_vars

(***************************************************************************)
(* MaxRelays notification relays beside the kitchen workers whose status   *)
(* updates they relay.                                                     *)
(***************************************************************************)
InitRelay ==
    /\ InitKitchenWork
    /\ lproc = [p \in Procs |-> NotStarted]
    /\ InitRequestIdle
    /\ notificationsDelivered = 0
    /\ relay = [r \in Relays |-> ConsumingRelay]
    /\ InitCapacity
    /\ InitReaderIdle
    /\ InitConnected

NextRelay ==
    \/ NextKitchen
    \/ \E r \in Relays : RelayDeliver(r)
    \/ \E r \in Relays : handleNotification(r)

SpecRelay == InitRelay /\ [][NextRelay]_vars

(***************************************************************************)
(* Worker process ShutdownProc, started and consuming, with the orders of  *)
(* the kitchen waiting in its queue, and the termination signal.           *)
(***************************************************************************)
InitShutdown ==
    /\ InitKitchenWork
    /\ lproc = [p \in Procs |-> IF p = ShutdownProc THEN Started ELSE NotStarted]
    /\ InitSide

NextShutdown ==
    \/ \E p \in {ShutdownProc} : Signal(p)
    \/ \E p \in {ShutdownProc} : MainCancel(p)
    \/ \E p \in {ShutdownProc} : HeartbeatTick(p)
    \/ \E p \in {ShutdownProc} : HeartbeatCtxDone(p)
    \/ \E p \in {ShutdownProc} : HeartbeatShutdown(p)
    \/ \E p \in {ShutdownProc} : StartShutdownBranch(p)
    \/ \E p \in {ShutdownProc} : StartDoneBranch(p)
    \/ \E p \in {ShutdownProc} : gracefulShutdown(p)
    \/ \E p \in {ShutdownProc} : ExitWorker(p)
    \/ \E p \in {ShutdownProc} : ConsumerDeliver(p)
    \/ \E p \in {ShutdownProc} : ConsumerStopped(p)
    \/ \E p \in {ShutdownProc} : ConsumerHandleMessage(p)
    \/ \E p \in {ShutdownProc} : ConsumerUpdateOrderStatus(p)
    \/ \E p \in {ShutdownProc} : ConsumerPublishCooking(p)
    \/ \E p \in {ShutdownProc} : ConsumerUpdateOrderStatusReady(p)
    \/ \E p \in {ShutdownProc} : ConsumerPublishReady(p)
    \/ \E p \in {ShutdownProc} : ConsumerProcessMessage(p)

SpecShutdown == InitShutdown /\ [][NextShutdown]_vars

(***************************************************************************)
(* One GET request of the tracking reader on a store that holds MaxOrders  *)
(* orders, the first of them of any type and at any stage, and two workers *)
(* of which chef_mario heartbeats at HeartbeatIntervals and was last seen  *)
(* LastSeenAges seconds before the request.                                *)
(***************************************************************************)
Now == 200
UpdatedAts == {100, 195}
LastSeenAges == {5, 11, 60, 61, 121}
HeartbeatIntervals == {5, 30, 60}
Endpoints == {"status", "history", "workers"}

\* the order row and the log rows of order k at stage `status`
TrackedOrder(k, type, status, t) ==
    [id |-> k, number |-> GenerateOrderNumber(1, k), type |-> type,
     total_amount |-> 20 * Unit, priority |-> 1, status |-> status,
     processed_by |-> IF status = StatusReceived THEN None ELSE WorkerName,
     completed_at |-> status = StatusReady, created_at |-> 1,
     updated_at |-> t]

TrackedLog(k, status) ==
    LET stages == CASE status = StatusReceived -> <<StatusReceived>>
                    [] status = StatusCooking -> <<StatusReceived, StatusCooking>>
                    [] OTHER -> <<StatusReceived, StatusCooking, StatusReady>>
    IN [j \in 1..Len(stages) |->
           [order_id |-> k, status |-> stages[j],
            changed_by |-> IF j = 1 THEN "order-service" ELSE WorkerName]]

RECURSIVE LaterLogs(_)
LaterLogs(k) ==
    IF k <= 1 THEN <<>> ELSE LaterLogs(k - 1) \o TrackedLog(k, StatusReceived)

InitTracking ==
    /\ \E type \in OrderTypes, status \in {StatusReceived, StatusCooking, StatusReady},
          t \in UpdatedAts :
          /\ orders = [k \in 1..MaxOrders |->
                          IF k = 1 THEN TrackedOrder(1, type, status, t)
                          ELSE TrackedOrder(k, Takeout, StatusReceived, 100)]
          /\ order_status_log = TrackedLog(1, status) \o LaterLogs(MaxOrders)
    /\ order_items = <<>>
    /\ nextOrderId = MaxOrders + 1
    /\ today = 1
    /\ call = [c \in Calls |-> IdleCall]
    /\ semaphore = 0
    /\ orderNumberMutex = Unlocked
    /\ published = <<>>
    /\ ocall = [c \in Calls |-> IdleOCall]
    /\ orderCounter = 0
    /\ lastOrderDate = 0
    /\ \E st \in {WorkerOnline, WorkerOffline}, age \in LastSeenAges :
          workers = [w \in KWorkers |->
                        IF w = WorkerName
                        THEN [status |-> st, orders_processed |-> 0,
                              last_seen |-> Now - age]
                        ELSE [status |-> WorkerOnline, orders_processed |-> 0,
                              last_seen |-> Now - 1]]
    /\ queues = [q \in Queues |-> {}]
    /\ notifications = <<>>
    /\ deliveries = 0
    /\ \E h \in HeartbeatIntervals :
          kconf = [w \in KWorkers |->
                      [orderTypes |-> {}, queue |-> "kitchen_queue",
                       heartbeatInterval |-> IF w = WorkerName THEN h ELSE 30]]
    /\ kworker = [w \in KWorkers |-> IdleWorker]
    /\ lproc = [p \in Procs |-> NotStarted]
    /\ InitRequestIdle
    /\ InitRelays
    /\ InitCapacity
    /\ InitConnected
    /\ \E e \in Endpoints, k \in 1..(MaxOrders + 1) :
          track = [NoTracking EXCEPT !.pc = "request", !.endpoint = e,
                                     !.number = GenerateOrderNumber(1, k),
                                     !.now = Now]

NextTracking ==
    \/ HandlerGetOrderStatus
    \/ HandlerGetOrderHistory
    \/ HandlerGetWorkerStatus

SpecTracking == InitTracking /\ [][NextTracking]_vars


(***************************************************************************)
(* Properties of order intake.                                             *)
(***************************************************************************)
ItemsOf(id) == SelectSeq(order_items, LAMBDA r : r.order_id = id)
LogOf(id) == SelectSeq(order_status_log, LAMBDA r : r.order_id = id)
OrderIds == { orders[i].id : i \in 1..Len(orders) }
ItemNames(items) == [k \in 1..Len(items) |-> items[k].name]

\* the request of the CreateOrder call that was given order id `id`
RequestOf(id) ==
    IF \E c \in Calls : call[c].orderID = id
    THEN call[CHOOSE c \in Calls : call[c].orderID = id].req
    ELSE ocall[CHOOSE c \in Calls : ocall[c].orderID = id].req

\* C1: in every reachable state no two persisted orders have the same
\* order number.
C1_OrderNumbersUnique ==
    \A i, j \in 1..Len(orders) : i # j => orders[i].number # orders[j].number

\* two concurrent calls were given the same number; one is persisted and the
\* other was refused by the constraint
C1_Witness ==
    \E c, d \in Calls :
        /\ call[c].result = "ok"
        /\ call[d].result = "unique_violation"
        /\ call[c].orderNumber = call[d].orderNumber
        /\ NumberCommitted(call[c].orderNumber)

\* C2: two CreateOrder calls of one intake process that run concurrently
\* never hold the same order number, and no call fails on the uniqueness
\* constraint of orders.number.
C2_NumberAssignmentExclusive ==
    /\ \A c, d \in Calls :
          (/\ c # d
           /\ call[c].pc \notin {"done"} /\ call[c].orderNumber # NoNumber
           /\ call[d].pc \notin {"done"} /\ call[d].orderNumber # NoNumber)
          => call[c].orderNumber # call[d].orderNumber
    /\ \A c \in Calls : call[c].result # "unique_violation"

\* C6: an order row is present exactly when all item rows of its request
\* and its initial received log row are present, and a CreateOrder call that
\* failed left no row of its order in any of the three tables.
C6_CreationAllOrNothing ==
    /\ \A id \in OrderIds :
          /\ ItemNames(ItemsOf(id)) = ItemNames(RequestOf(id).items)
          /\ LogOf(id) # <<>>
          /\ LogOf(id)[1].status = StatusReceived
    /\ \A k \in 1..Len(order_items) : order_items[k].order_id \in OrderIds
    /\ \A k \in 1..Len(order_status_log) : order_status_log[k].order_id \in OrderIds
    /\ \A c \in Calls :
          /\ call[c].result \in {"error", "unique_violation", "ctx_err"}
                => call[c].orderID \notin OrderIds
          /\ ocall[c].result \in {"error", "unique_violation"}
                => ocall[c].orderID \notin OrderIds

\* C7: when the publish of the work message fails after the commit,
\* CreateOrder returns success with order_number, status received and
\* total_amount, and the committed order, items and log row stay unchanged.
C7_PublishFailureKeepsOrder ==
    [][\A c \in Calls :
          (call[c].pc = "publish" /\ call'[c].pc = "done" /\ published' = published)
          => /\ call'[c].result = "ok"
             /\ call'[c].response =
                   [order_number |-> call[c].orderNumber,
                    status |-> StatusReceived,
                    total_amount |-> CalculateTotalAmount(call[c].req)]
             /\ <<orders, order_items, order_status_log>>' =
                   <<orders, order_items, order_status_log>>
             /\ call[c].orderID \in OrderIds
             /\ ItemNames(ItemsOf(call[c].orderID)) = ItemNames(call[c].req.items)
             /\ LogOf(call[c].orderID) # <<>>]_vars

\* a call returned success although its work message never reached the broker
C7_Witness ==
    \E c \in Calls :
        /\ call[c].pc = "done"
        /\ call[c].result = "ok"
        /\ call[c].orderID \in OrderIds
        /\ \A k \in 1..Len(published) :
              published[k].order_number # call[c].orderNumber

(***************************************************************************)
(* Properties of the kitchen worker.                                       *)
(***************************************************************************)
LogStatuses(id) == [k \in 1..Len(LogOf(id)) |-> LogOf(id)[k].status]

\* C3: every change of an order's persisted status made by a worker goes
\* from received to cooking or from cooking to ready; the status never moves
\* backwards and never skips a state.
C3_StatusOnlyForward ==
    [][\A i \in 1..Len(orders) :
          orders'[i].status # orders[i].status
          => <<orders[i].status, orders'[i].status>> \in
                { <<StatusReceived, StatusCooking>>, <<StatusCooking, StatusReady>> }]_vars

\* C4: for every order whose status is ready, the status log is exactly
\* received, cooking, ready in that order.
C4_ReadyLogExact ==
    \A i \in 1..Len(orders) :
        orders[i].status = StatusReady
        => LogStatuses(orders[i].id) = <<StatusReceived, StatusCooking, StatusReady>>

\* C5: a transition is applied only when the order's status is the expected
\* predecessor: the handling of a delivery whose order has already left
\* received changes no status, appends no log row, does not increment
\* orders_processed, and the handler still returns without error so that the
\* delivery is acknowledged.
C5_RedeliveryIsNoOp ==
    [][\A w \in KWorkers :
          LET n == kworker[w].msg.order_number
          IN /\ (kworker[w].pc = "cooking" /\ kworker'[w].pc # "cooking"
                 /\ OrderExists(n) /\ OrderRow(n).status # StatusReceived)
                => /\ <<orders, order_status_log, workers>>' =
                         <<orders, order_status_log, workers>>
                   /\ kworker'[w].err = None
             /\ (kworker[w].pc = "ready" /\ kworker'[w].pc # "ready"
                 /\ OrderExists(n) /\ OrderRow(n).status # StatusCooking)
                => /\ <<orders, order_status_log, workers>>' =
                         <<orders, order_status_log, workers>>
                   /\ kworker'[w].err = None]_vars

\* the delivery in w's hands is of a type outside w's non-empty specialization
OutsideSpecialization(w) ==
    /\ kconf[w].orderTypes # {}
    /\ kworker[w].msg.order_type \notin kconf[w].orderTypes

\* C8: a worker whose specialization set is non-empty and does not contain
\* the order type of a delivered message nacks it with requeue, writes
\* nothing to the store, publishes no notification, and is never recorded as
\* processed_by of an order of such a type.
C8_RejectOutsideSpecialization ==
    /\ [][\A w \in KWorkers :
            (/\ kworker[w].pc # "idle"
             /\ OutsideSpecialization(w)
             /\ kworker'[w] # kworker[w])
            => /\ <<storeVars, workers, notifications>>' =
                     <<storeVars, workers, notifications>>
               /\ kworker'[w].pc \in {"returned", "idle"}
               /\ kworker'[w].pc = "idle"
                    => /\ kworker'[w].outcome = "nack"
                       /\ kworker[w].msg \in queues'[kconf[w].queue]]_vars
    /\ [](\A w \in KWorkers : \A i \in 1..Len(orders) :
            (kconf[w].orderTypes # {} /\ orders[i].type \notin kconf[w].orderTypes)
            => orders[i].processed_by # w)

\* a specialized worker has just nacked a delivery of a type it does not
\* handle; the message is back in its queue and its order is untouched
C8_Witness ==
    \E w \in KWorkers : \E m \in queues[kconf[w].queue] :
        /\ kconf[w].orderTypes # {}
        /\ m.order_type \notin kconf[w].orderTypes
        /\ kworker[w].pc = "idle"
        /\ kworker[w].err = "cannot_handle"
        /\ kworker[w].outcome = "nack"
        /\ OrderRow(m.order_number).status = StatusReceived

(***************************************************************************)
(* Properties of the worker lifecycle.                                     *)
(***************************************************************************)
\* C9: Worker.Start fails at registration, leaving the worker row as it is,
\* whenever the registration check finds the row of its name online; when
\* the check finds the row absent or offline (the previous holder has shut
\* down) Start is not refused, and its upsert sets the status to online.
C9_RegistrationByStatus ==
    [][\A p \in Procs :
          /\ (/\ lproc[p].pc = "check" /\ lproc'[p].pc # "check"
              /\ workers[WorkerName].status = WorkerOnline)
             => /\ lproc'[p].pc = "returned"
                /\ lproc'[p].result \in {"already_online", "db_error"}
                /\ workers' = workers
          /\ (/\ lproc[p].pc = "check" /\ lproc'[p].pc # "check"
              /\ workers[WorkerName].status # WorkerOnline)
             => lproc'[p].result # "already_online"
          /\ (lproc[p].pc = "insert" /\ lproc'[p].pc # "insert"
              /\ lproc'[p].result # "db_error")
             => /\ lproc'[p].registered
                /\ workers'[WorkerName].status = WorkerOnline]_vars

\* the first holder of the name shut down and wrote offline; the second
\* process then found the row offline and registered
C9_Witness ==
    \E p, q \in Procs :
        /\ p # q
        /\ lproc[p].wentOffline
        /\ lproc[p].pc \in {"returned", "exited"}
        /\ lproc[q].seen = WorkerOffline
        /\ lproc[q].registered
        /\ workers[WorkerName].status = WorkerOnline

\* C10: when a registered worker is stopped by a termination signal, its
\* persisted status is offline by the time Start returns, whichever
\* goroutine received the signal and whichever branch Start left through.
C10_OfflineWhenStartReturns ==
    [][\A p \in Procs :
          (/\ lproc[p].pc # "returned" /\ lproc'[p].pc = "returned"
           /\ lproc[p].registered
           /\ lproc[p].signalled)
          => workers'[WorkerName].status = WorkerOffline]_vars

(***************************************************************************)
(* Properties of the kitchen worker's failure handling.                    *)
(***************************************************************************)
\* C11: when the cooking or the ready transaction fails the handler returns
\* an error and orders, order_status_log and workers are as they were before
\* the transaction; the consumer then nacks the delivery with requeue.
C11_TxFailureRollsBackAndNacks ==
    [][\A w \in KWorkers :
          /\ (/\ kworker[w].pc = "cooking"
              /\ kworker'[w] # kworker[w]
              /\ kworker'[w].pc # "notify_cooking")
             => /\ kworker'[w].pc = "returned"
                /\ kworker'[w].err = "cooking_failed"
                /\ <<orders, order_status_log, workers>>' =
                      <<orders, order_status_log, workers>>
          /\ (/\ kworker[w].pc = "ready"
              /\ kworker'[w] # kworker[w]
              /\ kworker'[w].pc # "notify_ready")
             => /\ kworker'[w].pc = "returned"
                /\ kworker'[w].err = "ready_failed"
                /\ <<orders, order_status_log, workers>>' =
                      <<orders, order_status_log, workers>>
          /\ (/\ kworker[w].pc = "returned"
              /\ kworker[w].err \in {"cooking_failed", "ready_failed"}
              /\ kworker'[w] # kworker[w])
             => /\ kworker'[w].outcome = "nack"
                /\ kworker[w].msg \in queues'[kconf[w].queue]
                /\ <<orders, order_status_log, workers>>' =
                      <<orders, order_status_log, workers>>]_vars

\* a ready transaction failed: the delivery was nacked and is back in the
\* queue, the order is still cooking and nothing was counted
C11_Witness ==
    \E w \in KWorkers : \E m \in queues[kconf[w].queue] :
        /\ kworker[w].pc = "idle"
        /\ kworker[w].err = "ready_failed"
        /\ kworker[w].outcome = "nack"
        /\ OrderRow(m.order_number).status = StatusCooking
        /\ OrderRow(m.order_number).processed_by = w
        /\ workers[w].orders_processed = 0

\* C12: a notification that fails to publish does not fail the handling:
\* after the cooking notification the worker goes on to the ready
\* transaction, after the ready notification the handler returns without
\* error, and the consumer acks the delivery instead of nacking it.
C12_NotificationFailureSwallowed ==
    [][\A w \in KWorkers :
          /\ (/\ kworker[w].pc = "notify_cooking"
              /\ kworker'[w] # kworker[w]
              /\ notifications' = notifications)
             => /\ kworker'[w].pc = "ready"
                /\ kworker'[w].err = None
          /\ (/\ kworker[w].pc = "notify_ready"
              /\ kworker'[w] # kworker[w]
              /\ notifications' = notifications)
             => /\ kworker'[w].pc = "returned"
                /\ kworker'[w].err = None
                /\ OrderRow(kworker[w].msg.order_number).status = StatusReady
          /\ (/\ kworker[w].pc = "returned"
              /\ kworker[w].err = None
              /\ kworker'[w] # kworker[w])
             => kworker'[w].outcome \in {"ack", "ack_failed"}]_vars

\* both notifications of an order failed to publish, yet the order is ready
\* and its delivery was acked
C12_Witness ==
    \E w \in KWorkers : \E i \in 1..Len(orders) :
        /\ notifications = <<>>
        /\ kworker[w].pc = "idle"
        /\ kworker[w].outcome = "ack"
        /\ orders[i].status = StatusReady
        /\ orders[i].processed_by = w

(***************************************************************************)
(* Properties of the order numbering.                                      *)
(***************************************************************************)
\* the sequence numbers, as integers, of the stored orders numbered for day
\* d, in the order in which the rows were stored
RECURSIVE SeqValue(_)
SeqValue(digits) ==
    IF digits = <<>> THEN 0
    ELSE 10 * SeqValue(SubSeq(digits, 1, Len(digits) - 1)) + digits[Len(digits)]

DaySequence(d) ==
    LET Keep(o) == o.number.date = d
        F[k \in 0..Len(orders)] ==
            IF k = 0 THEN <<>>
            ELSE IF Keep(orders[k]) THEN Append(F[k - 1], SeqValue(orders[k].number.seq))
                 ELSE F[k - 1]
    IN F[Len(orders)]

\* no creation is in flight
Quiescent ==
    \A c \in Calls : call[c].pc \in {"idle", "done"} /\ ocall[c].pc \in {"idle", "done"}

\* C13: once the creations in flight have returned, the orders stored for
\* one UTC day carry exactly the sequence numbers 1, 2, 3, ... without gap
\* or repeat: a failed creation has taken no number and each day starts
\* again at 1.
C13_DailySequenceGapless ==
    Quiescent =>
        \A d \in Days :
            /\ Range(DaySequence(d)) = 1..Len(DaySequence(d))
            /\ Cardinality(Range(DaySequence(d))) = Len(DaySequence(d))

(***************************************************************************)
(* Properties of validation and pricing.                                   *)
(***************************************************************************)
\* the two request paths
Paths == {"handler", "order_service"}
PathCall(path) == IF path = "handler" THEN hcall ELSE vcall

\* the priority tier of a total
PriorityOf(total) ==
    IF total > 100 * Unit THEN 10 ELSE IF total >= 50 * Unit THEN 5 ELSE 1

\* the sum over the request's items of price times quantity
ItemsTotal == SumItems(hreq.items, Len(hreq.items))

\* C14: the priority of a created order is 10 for a total above 100, 5 for
\* a total from 50 to 100 inclusive and 1 below 50; that priority is the one
\* stored with the order and the one in the routing key of its work message.
C14_PriorityAtBoundaries ==
    \A path \in Paths :
        PathCall(path).status = 200
        => /\ PathCall(path).stored.priority = PriorityOf(ItemsTotal)
           /\ path = "handler"
              => /\ hcall.message.priority = PriorityOf(ItemsTotal)
                 /\ hcall.routingKey =
                       <<"kitchen", hreq.order_type, PriorityOf(ItemsTotal)>>

\* C15: for a request that passed validation and was created, the total
\* stored with the order, the total of the response and the total of the
\* work message all equal the sum of price times quantity of its items.
C15_TotalIsSumEverywhere ==
    hcall.status = 200
    => /\ hcall.stored.total_amount = ItemsTotal
       /\ hcall.response.total_amount = ItemsTotal
       /\ hcall.message.total_amount = ItemsTotal

\* the fields the body populates although its order type forbids them
ForbiddenFields ==
    (IF hreq.table_number.present /\ hreq.order_type \in {Delivery, Takeout}
     THEN {"table_number"} ELSE {})
    \cup
    (IF hreq.delivery_address.present /\ hreq.order_type \in {DineIn, Takeout}
     THEN {"delivery_address"} ELSE {})

NameRule ==
    /\ hreq.customer_name.len >= 1
    /\ hreq.customer_name.len <= 100
    /\ hreq.customer_name.chars \subseteq {"letter", "space", "hyphen", "apostrophe"}

TypeRule == hreq.order_type \in {DineIn, Takeout, Delivery}

RequiredRule ==
    /\ hreq.order_type = Delivery
       => hreq.delivery_address.present /\ hreq.delivery_address.value.len >= 10
    /\ hreq.order_type = DineIn
       => /\ hreq.table_number.present
          /\ hreq.table_number.value >= 1
          /\ hreq.table_number.value <= 100

ItemsRule ==
    /\ Len(hreq.items) >= 1
    /\ Len(hreq.items) <= 20
    /\ \A i \in 1..Len(hreq.items) :
          /\ hreq.items[i].name.len >= 1
          /\ hreq.items[i].name.len <= 50
          /\ hreq.items[i].quantity >= 1
          /\ hreq.items[i].quantity <= 10
          /\ hreq.items[i].price >= Cent
          /\ hreq.items[i].price <= 999 * Unit + 99 * Cent

FieldRules == NameRule /\ TypeRule /\ RequiredRule /\ ItemsRule

\* C16: a request that populates a field its order type forbids is answered
\* with a validation error and is given no order number and no order; when
\* it breaks no other rule the error names a conflicting field.
C16_ForbiddenFieldRejected ==
    \A path \in Paths :
        (ForbiddenFields # {} /\ PathCall(path).pc \in {"create", "responded"})
        => /\ PathCall(path).pc = "responded"
           /\ PathCall(path).status = 400
           /\ ~PathCall(path).numbered
           /\ FieldRules => PathCall(path).err.field \in ForbiddenFields

\* C17: validation returns an error for every request that breaks a field
\* rule, and no error for every request that satisfies the field rules and
\* populates no forbidden field.
C17_ValidationMatchesRules ==
    \A path \in Paths :
        PathCall(path).pc \in {"create", "responded"}
        => /\ ~FieldRules
              => PathCall(path).pc = "responded" /\ PathCall(path).status = 400
           /\ (FieldRules /\ ForbiddenFields = {})
              => PathCall(path).status # 400

\* no notification waits in the queue the relays consume and no relay holds
\* an unacknowledged one
RelaysQuiescent ==
    /\ notifications_queue = <<>>
    /\ \A r \in Relays : relay[r].pc # "handling"

\* C18: with several relays running, every relay receives every published
\* notification; none is delivered to only some of the running relays.
C18_EveryRelayReceivesAll ==
    RelaysQuiescent
    => \A r \in Relays :
          \A i \in 1..Len(notifications) : i \in relay[r].displayed

\* C19: once the worker has taken the termination signal it pulls no new
\* delivery, and it marks itself offline and releases the broker consumer
\* only when no delivery is in hand, so that the handling in flight ends
\* with the order ready and the delivery acknowledged on an open channel.
C19_InFlightFinishesBeforeShutdown ==
    [][ /\ (lproc[ShutdownProc].pc = "graceful"
            /\ lproc'[ShutdownProc].pc = "returned")
           => kworker[WorkerName].pc = "idle"
        /\ (lproc[ShutdownProc].pc \in {"graceful", "returned"}
            /\ kworker[WorkerName].pc = "idle")
           => kworker'[WorkerName].pc = "idle" ]_vars

\* the calls that are past the semaphore and have not returned
PastSemaphore == { c \in Calls : call[c].pc \notin {"idle", "semaphore", "done"} }

\* the rows a call has written, committed or not
WrittenBy(c) ==
    { i \in 1..Len(orders) : orders[i].id = call[c].orderID }

\* C20: no more than maxConcurrent calls are past the semaphore; a call that
\* got no slot before its deadline returns the context error with no order
\* number generated and nothing written; a call that got a slot has
\* released it when it returns, whatever the outcome.
C20_SemaphoreBoundsIntake ==
    /\ Cardinality(PastSemaphore) <= maxConcurrent
    /\ semaphore = Cardinality(PastSemaphore)
    /\ \A c \in Calls :
          call[c].result = "ctx_err"
          => /\ call[c].pc = "done"
             /\ call[c].orderNumber = NoNumber
             /\ call[c].orderID = 0
             /\ call[c].tx = NoTx
             /\ WrittenBy(c) = {}

\* a call has returned the context error while the calls past the semaphore
\* fill it
C20_Witness ==
    \E c, d \in Calls :
        /\ call[c].result = "ctx_err"
        /\ d \in PastSemaphore
        /\ call[d].orderNumber # NoNumber
        /\ semaphore = maxConcurrent

\* no order of the store has the number the request asks for
UnknownNumber == \A i \in 1..Len(orders) : orders[i].number # track.number

\* C21: the status query and the history query of an order number that no
\* stored order has are answered 404 (and not 500).
C21_UnknownOrderIs404 ==
    (track.pc = "responded" /\ track.endpoint \in {"status", "history"}
     /\ UnknownNumber)
    => track.status = 404

\* seconds since chef w was last seen, at the time of the request
Age(w) == track.now - workers[w].last_seen

\* C22: the roster reports a worker offline when its last_seen is older than
\* twice the interval it heartbeats at, and when it is stored offline; it
\* reports a worker online only when it is stored online and was seen
\* within twice its interval.
C22_RosterByHeartbeat ==
    (track.pc = "responded" /\ track.endpoint = "workers")
    => \A w \in DOMAIN track.roster :
          /\ Age(w) > 2 * kconf[w].heartbeatInterval
             => track.roster[w].status = "offline"
          /\ workers[w].status = WorkerOffline
             => track.roster[w].status = "offline"
          /\ track.roster[w].status = "online"
             => /\ workers[w].status = WorkerOnline
                /\ Age(w) <= 2 * kconf[w].heartbeatInterval

\* the order row the status request asked for
AskedOrder == orders[CHOOSE i \in 1..Len(orders) : orders[i].number = track.number]

\* C23: the status answer carries estimated_completion exactly when the
\* order is cooking, and then it is updated_at plus 8 s for dine_in, 10 s
\* for takeout, 12 s for delivery.
C23_EstimateOnlyWhileCooking ==
    (track.pc = "responded" /\ track.endpoint = "status" /\ track.status = 200)
    => /\ track.order.estimated_completion.present
          <=> AskedOrder.status = StatusCooking
       /\ AskedOrder.status = StatusCooking
          => track.order.estimated_completion.value =
                AskedOrder.updated_at
                + (IF AskedOrder.type = DineIn THEN 8
                   ELSE IF AskedOrder.type = Takeout THEN 10 ELSE 12)

\* the status of a cooking dine_in order has been answered
C23_Witness ==
    /\ track.pc = "responded"
    /\ track.endpoint = "status"
    /\ track.status = 200
    /\ AskedOrder.status = StatusCooking
    /\ AskedOrder.type = DineIn
    /\ track.order.estimated_completion.present

\* the work queue of an order type
TypeQueue(orderType) ==
    CASE orderType = DineIn -> "kitchen_dine_in_queue"
      [] orderType = Takeout -> "kitchen_takeout_queue"
      [] orderType = Delivery -> "kitchen_delivery_queue"

\* the handler's work message was accepted by the broker
HandlerPublished == hcall.status = 200 /\ published # <<>>

\* C24: the work message of an order of type T and priority P is published
\* with the key kitchen.T.P and is in the work queue of type T and in the
\* work queue of no other type.
C24_RoutedToTypeQueueOnly ==
    HandlerPublished
    => /\ hcall.routingKey =
             <<"kitchen", hreq.order_type, hcall.stored.priority>>
       /\ \A t \in OrderTypes :
             (published[1] \in queues[TypeQueue(t)]) <=> (t = hreq.order_type)

\* a delivery order of priority 10 has been published
C24_Witness ==
    /\ HandlerPublished
    /\ hreq.order_type = Delivery
    /\ hcall.stored.priority = 10
    /\ published[1] \in queues["kitchen_delivery_queue"]

\* C27: every published work message is also in the general work queue
\* kitchen_queue, whatever its type.
C27_GeneralQueueGetsEveryOrder ==
    HandlerPublished => published[1] \in queues["kitchen_queue"]

\* C25: POST /orders answers a request that fails validation with 400 and
\* the validation error, without calling CreateOrder (no number, nothing
\* stored or published); a failure of CreateOrder with 500 and the same
\* generic message whatever the error; a success with 200, the order
\* number, the status received and the total.
C25_OutcomeToResponse ==
    hcall.pc = "responded"
    => /\ Validate(hreq) # NoError
          => /\ hcall.status = 400
             /\ hcall.err = Validate(hreq)
             /\ ~hcall.numbered
             /\ hcall.stored = IdleHandling.stored
             /\ orders = <<>> /\ published = <<>>
       /\ hcall.status = 400 => Validate(hreq) # NoError
       /\ hcall.status = 500
          => /\ hcall.errorBody = "Internal server error"
             /\ hcall.logged \in CreateOrderErrors
       /\ hcall.status = 200
          => /\ hcall.response.order_number # NoNumber
             /\ hcall.response.status = "received"
             /\ hcall.response.total_amount = CalculateTotalAmount(hreq)
       /\ hcall.status \in {200, 400, 500}

\* a request that Validate rejects has been answered
C25_Witness ==
    /\ hcall.pc = "responded"
    /\ Validate(hreq) # NoError
    /\ hcall.status = 400
    /\ vcall.pc = "responded"

\* the process registered under the name and its consumer is consuming
RegisteredAndConsuming(p) ==
    /\ lproc[p].registered
    /\ lproc[p].seen # WorkerOnline
    /\ lproc[p].pc = "select"
    /\ lproc[p].cons = "consuming"
    /\ ~lproc[p].wentOffline

\* C26: of two worker processes started with the same name while the name
\* is absent or offline in the store, at most one registers and goes on to
\* consume; the other one is rejected at startup.
C26_OneHolderPerName ==
    \A p, q \in Procs :
        p # q => ~(RegisteredAndConsuming(p) /\ RegisteredAndConsuming(q))

C29_PublishedAfterCommit ==
    /\ \A k \in 1..Len(published) : NumberCommitted(published[k].order_number)
    /\ \A q \in Queues : \A m \in queues[q] : NumberCommitted(m.order_number)
    /\ \A j, k \in 1..Len(published) :
          published[j].order_number = published[k].order_number => j = k

\* one call committed and published its message; the other one got a
\* number and failed, and published nothing
C29_Witness ==
    \E c, d \in Calls :
        /\ call[c].pc = "done" /\ call[c].result = "ok"
        /\ call[d].pc = "done" /\ call[d].result \notin {"ok", None}
        /\ call[d].orderNumber # NoNumber
        /\ Len(published) = 1
        /\ published[1].order_number = call[c].orderNumber
        /\ \E q \in Queues : published[1] \in queues[q]

\* the ready rows of the status log written by worker w
ReadyRowsBy(w) ==
    { k \in 1..Len(order_status_log) :
         /\ order_status_log[k].status = StatusReady
         /\ order_status_log[k].changed_by = w }

\* C30: a worker's orders_processed equals the number of ready rows of the
\* status log whose changed_by is that worker.
C30_CounterMatchesReadyRows ==
    \A w \in KWorkers :
        workers[w].orders_processed = Cardinality(ReadyRowsBy(w))

\* a worker has completed two orders, or one order and a redelivery of it
C30_Witness ==
    \E w \in KWorkers :
        /\ workers[w].orders_processed = 2
        /\ Cardinality(ReadyRowsBy(w)) = 2
        /\ kworker[w].pc = "idle"

\* C31: the persisted status of every order is the status of the last
\* status-log row of that order, the first log row of the order is
\* received, and every step leaves the rows already in the log as they
\* are, adding rows at the end only.
C31_StatusIsLastLogRow ==
    /\ [](\A i \in 1..Len(orders) :
            LET log == LogOf(orders[i].id)
            IN /\ log # <<>>
               /\ log[1].status = StatusReceived
               /\ log[Len(log)].status = orders[i].status)
    /\ [][/\ Len(order_status_log') >= Len(order_status_log)
           /\ SubSeq(order_status_log', 1, Len(order_status_log))
                 = order_status_log]_vars

\* an order that was ready is cooking again after a redelivery, and its
\* log ends with that second cooking row
C31_Witness ==
    \E i \in 1..Len(orders) :
        LET log == LogOf(orders[i].id)
        IN /\ orders[i].status = StatusCooking
           /\ Len(log) = 4
           /\ log[3].status = StatusReady
           /\ log[4].status = StatusCooking

\* the message of order k is with no queue and in no consumer's hand
Consumed(k) ==
    /\ \A q \in Queues : \A m \in queues[q] : m.order_number # orders[k].number
    /\ \A w \in KWorkers : kworker[w].msg.order_number # orders[k].number

\* a worker that consumes the queue of the order's type can handle the type
Servable(k) ==
    \E w \in KWorkers :
        /\ kconf[w].queue = TypeQueue(orders[k].type)
        /\ (kconf[w].orderTypes = {} \/ orders[k].type \in kconf[w].orderTypes)

ConsumersOf(k) == { w \in KWorkers : kconf[w].queue = TypeQueue(orders[k].type) }

\* C33: when every worker that consumes the queue of a message has a
\* specialization that excludes the message's order type, every delivery
\* of the message ends with a nack with requeue, no worker acknowledges
\* it, and the order stays received with no processed_by.
C33_UnservableCyclesForever ==
    /\ [](\A k \in 1..MaxOrders :
            ~Servable(k)
            => /\ ~Consumed(k)
               /\ orders[k].status = StatusReceived
               /\ orders[k].processed_by = None)
    /\ [][\A k \in 1..MaxOrders : \A w \in KWorkers :
            (/\ ~Servable(k)
             /\ kworker[w].msg.order_number = orders[k].number
             /\ kworker'[w].pc = "idle")
            => /\ kworker'[w].outcome = "nack"
               /\ kworker[w].msg \in queues'[kconf[w].queue]]_vars

\* the only consumer of the order's queue has nacked it at every delivery
\* the broker made, and the message is back in the queue
C33_Witness ==
    \E k \in 1..MaxOrders :
        /\ ConsumersOf(k) # {}
        /\ ~Servable(k)
        /\ deliveries = MaxDeliveries
        /\ \A w \in KWorkers :
              /\ kworker[w].pc = "idle"
              /\ w \in ConsumersOf(k) => kworker[w].outcome = "nack"
              /\ w \notin ConsumersOf(k) => kworker[w].outcome = None
        /\ ~Consumed(k)
        /\ orders[k].status = StatusReceived

\* C34: a delivery whose deadline expired while its handler was running
\* ends with a nack with requeue and is never acknowledged, at whichever
\* step of the handler the deadline expired.
C34_ExpiredIsNacked ==
    [][\A w \in KWorkers :
          (/\ kworker[w].expired
           /\ kworker[w].pc = "returned"
           /\ kworker'[w].pc = "idle")
          => /\ kworker[w].err # None
             /\ kworker'[w].outcome = "nack"]_vars

\* C35: the consumer is registered again after the loss of its delivery
\* channel only on a connection opened after the old one was closed and
\* with every exchange, queue and binding of the topology declared on it;
\* when connect has used up its maxRetries iterations StartConsuming
\* returns an error and does not consume.
C35_ResumeAfterFullRedeclare ==
    /\ [](conn.pc = "consuming" => conn.open /\ conn.declared = TopologyItems)
    /\ [](conn.i = maxRetries => conn.pc \in {"connect_failed", "returned"})
    /\ [][/\ conn.pc = "closed" /\ conn'.pc \notin {"closed", "returned"}
             => ~conn'.open /\ conn'.declared = {} /\ conn'.pc = "dial"
          /\ conn.pc = "connect_failed" /\ conn'.pc # "connect_failed"
             => conn'.pc = "returned" /\ conn'.result = "failed_to_reconnect"
          /\ conn.pc = "returned" => conn'.pc = "returned"]_vars

\* the consumer is registered again after a loss and a connect that
\* succeeded at its last iteration
C35_Witness ==
    /\ conn.pc = "consuming"
    /\ conn.i = maxRetries - 1
    /\ conn.open
    /\ conn.declared = TopologyItems

\* the last status-log row of the order with this number
LastLogRow(number) ==
    LET log == LogOf(OrderRow(number).id) IN log[Len(log)]

\* C36: a worker publishes the cooking notification (received to cooking,
\* with estimated_completion) only when its cooking transaction has
\* committed, and the ready notification (cooking to ready, without
\* estimated_completion) only when its ready transaction has committed;
\* within one handling the cooking publish comes before the ready
\* transaction and the ready publish after it; a transition that did not
\* commit is followed by no publish.
C36_NotifyAfterCommit ==
    [][/\ notifications' # notifications
          => \E w \in KWorkers :
               LET n == kworker[w].msg.order_number
                   m == notifications'[Len(notifications')]
               IN /\ notifications' = Append(notifications, m)
                  /\ m.order_number = n
                  /\ m.changed_by = w
                  /\ \/ /\ kworker[w].pc = "notify_cooking"
                        /\ m.old_status = "received"
                        /\ m.new_status = "cooking"
                        /\ m.estimated_completion
                        /\ LastLogRow(n) = [order_id |-> OrderRow(n).id,
                                            status |-> "cooking",
                                            changed_by |-> w]
                        /\ OrderRow(n).status = "cooking"
                     \/ /\ kworker[w].pc = "notify_ready"
                        /\ m.old_status = "cooking"
                        /\ m.new_status = "ready"
                        /\ ~m.estimated_completion
                        /\ LastLogRow(n) = [order_id |-> OrderRow(n).id,
                                            status |-> "ready",
                                            changed_by |-> w]
                        /\ OrderRow(n).status = "ready"
       /\ \A w \in KWorkers :
             /\ (kworker'[w].pc = "notify_cooking" /\ kworker[w].pc # "notify_cooking")
                => /\ kworker[w].pc = "cooking"
                   /\ order_status_log' # order_status_log
             /\ (kworker'[w].pc = "ready" /\ kworker[w].pc # "ready")
                => kworker[w].pc = "notify_cooking"
             /\ (kworker'[w].pc = "notify_ready" /\ kworker[w].pc # "notify_ready")
                => /\ kworker[w].pc = "ready"
                   /\ order_status_log' # order_status_log]_vars

\* both notifications of one handling are published, the cooking one
\* first, and the order is ready
C36_Witness ==
    \E w \in KWorkers : \E j \in 1..Len(notifications) :
        /\ j < Len(notifications)
        /\ notifications[j].new_status = StatusCooking
        /\ notifications[j + 1].new_status = StatusReady
        /\ notifications[j].order_number = notifications[j + 1].order_number
        /\ notifications[j].changed_by = w
        /\ notifications[j + 1].changed_by = w
        /\ kworker[w].pc = "returned"
        /\ kworker[w].err = None
        /\ OrderRow(notifications[j].order_number).status = StatusReady

\* C37: once the graceful shutdown of a worker process has written status
\* offline, no later write of that process sets the status back to online
\* (stated for a process that is the only one started under the name, so
\* that every write is its own).
C37_OfflineStaysOffline ==
    [][\A p \in Procs :
          (/\ lproc[p].wentOffline
           /\ \A q \in Procs \ {p} : lproc[q].pc = "new"
           /\ workers[WorkerName].status = WorkerOffline)
          => workers'[WorkerName].status = WorkerOffline]_vars

\* C38: an order's completed_at is set exactly when its status is ready.
C38_CompletedIffReady ==
    \A i \in 1..Len(orders) :
        orders[i].completed_at <=> orders[i].status = StatusReady

(***************************************************************************)
(* A long day.  The store holds the orders numbered 001 to 999 of the      *)
(* current day, each with its item row and its first log row, as 999       *)
(* successful CreateOrder calls leave it; further calls arrive on the same *)
(* day.                                                                    *)
(***************************************************************************)
StoredOrder(i) ==
    [id |-> i, number |-> GenerateOrderNumber(1, i),
     customer_name |-> RequestList[1].customer_name,
     type |-> RequestList[1].order_type,
     table_number |-> RequestList[1].table_number,
     delivery_address |-> RequestList[1].delivery_address,
     total_amount |-> Decimal2(CalculateTotalAmount(RequestList[1])),
     priority |-> CalculatePriority(RequestList[1]),
     status |-> StatusReceived,
     processed_by |-> None, completed_at |-> FALSE, created_at |-> 1]

InitLongDay ==
    /\ orders = [i \in 1..999 |-> StoredOrder(i)]
    /\ order_items = [i \in 1..999 |->
                        [order_id |-> i, name |-> RequestList[1].items[1].name]]
    /\ order_status_log = [i \in 1..999 |->
                        [order_id |-> i, status |-> StatusReceived,
                         changed_by |-> "order-service"]]
    /\ nextOrderId = 1000
    /\ today = 1
    /\ call = [c \in Calls |-> IdleCall]
    /\ semaphore = 0
    /\ orderNumberMutex = Unlocked
    /\ published = <<>>
    /\ ocall = [c \in Calls |-> IdleOCall]
    /\ orderCounter = 0
    /\ lastOrderDate = 0
    /\ workers = [w \in KWorkers |-> NoRow]
    /\ queues = [q \in Queues |-> {}]
    /\ notifications = <<>>
    /\ deliveries = 0
    /\ kconf = [w \in KWorkers |-> [orderTypes |-> {}, queue |-> "kitchen_queue"]]
    /\ kworker = [w \in KWorkers |-> IdleWorker]
    /\ lproc = [p \in Procs |-> NotStarted]
    /\ InitSide

NextLongDay ==
    \/ \E c \in Calls, r \in Requests : Submit(c, r)
    \/ \E c \in Calls : AcquireSemaphore(c)
    \/ \E c \in Calls : AcquireTimeout(c)
    \/ \E c \in Calls : LockOrderNumber(c)
    \/ \E c \in Calls : generateOrderNumber(c)
    \/ \E c \in Calls : BeginTx(c)
    \/ \E c \in Calls : InsertOrder(c)
    \/ \E c \in Calls : InsertOrderItem(c)
    \/ \E c \in Calls : InsertInitialStatus(c)
    \/ \E c \in Calls : CommitTx(c)
    \/ \E c \in Calls : PublishOrder(c)

SpecLongDay == InitLongDay /\ [][NextLongDay]_vars

\* C39: the number generateOrderNumber returns is the number of no
\* persisted order, however many orders the day already holds (after 999,
\* the creations get 1000, 1001, ...).
C39_NumberIsFresh ==
    [][\A c \in Calls :
          (call[c].pc = "nextseq" /\ call'[c].pc = "begin")
          => ~NumberCommitted(call'[c].orderNumber)]_vars

\* C40: the cooking and ready transitions change only the status,
\* processed_by and completed_at of an order: its number, customer_name,
\* type, table_number, delivery_address, total_amount and priority (and its
\* id and created_at) stay as inserted, its item rows stay as inserted, and
\* no order row is ever removed.
C40_TransitionsKeepTheOrder ==
    [][/\ Len(orders') >= Len(orders)
       /\ \A i \in 1..Len(orders) :
            /\ orders'[i].id = orders[i].id
            /\ orders'[i].number = orders[i].number
            /\ orders'[i].customer_name = orders[i].customer_name
            /\ orders'[i].type = orders[i].type
            /\ orders'[i].table_number = orders[i].table_number
            /\ orders'[i].delivery_address = orders[i].delivery_address
            /\ orders'[i].total_amount = orders[i].total_amount
            /\ orders'[i].priority = orders[i].priority
            /\ orders'[i].created_at = orders[i].created_at
       /\ Len(order_items') >= Len(order_items)
       /\ SubSeq(order_items', 1, Len(order_items)) = order_items]_vars

\* a delivery order of more than one item has been through both transitions
C40_Witness ==
    \E i \in 1..Len(orders) :
        /\ orders[i].status = StatusReady
        /\ orders[i].completed_at
        /\ orders[i].processed_by \in KWorkers
        /\ orders[i].type = Delivery
        /\ orders[i].delivery_address # ""
        /\ orders[i].total_amount > 0
        /\ Cardinality({k \in 1..Len(order_items) :
                            order_items[k].order_id = orders[i].id}) > 1

=============================================================================
